---- MODULE Spec2Model ----
(***************************************************************************)
(* A model of the ipc_uds transport: the UDSServer state machine and       *)
(* event loop (server_core/src/UDSServer.cpp), the ServiceManager          *)
(* dispatch, and the client Channel (ipc_sync Channel.cpp).                *)
(***************************************************************************)
EXTENDS Integers, Sequences, FiniteSets, TLC

\* ---------------------------------------------------------------- bounds
MaxClients == 2      \* accepted connections held at once
MaxEvents == 2       \* events returned by one epoll_wait
MaxTime == 600       \* last value of the clock, in seconds
TickSec == 300       \* granularity of the clock
NumThreads == 2      \* threads sharing one Channel
MaxCalls == 2        \* ExecuteRPC calls made on the Channel
Capacity == 24       \* length of the region a ByteBuffer is constructed on
MaxOps == 3          \* calls made on the ByteBuffer
NumWorkers == 2      \* worker threads of the ThreadPool
MaxTasks == 2        \* Submit calls made on the ThreadPool

\* ------------------------------------------------------ program constants
START_BYTE == 126
END_BYTE == 127
VERSION == 1
MAX_PACKET_SIZE == 8192
INACTIVITY_TIMEOUT_SEC == 300
GetMinFrameSize == 11
CalculatorRequestId == 4096
TimeRequestId == 8192
UnknownRoutineId == CalculatorRequestId + TimeRequestId

VARIABLES
  \* UDSServer
  running_, server_fd_, epoll_fd_, timer_fd_, clients_,
  \* the server thread: its local `state`, its position, the epoll batch
  thr, state, spc, events,
  \* the thread calling Start()/Stop()
  ctl,
  \* operating system: descriptor table, epoll interest list, socket file, clock
  openFds, epollReg, sockFile, now,
  \* observations: startup failure / CreateSocket entries of the current Start(),
  \* and what the last HandleClientData did
  setupFailed, createCalls, lastReq,
  \* Channel::Impl
  socket_fd_, connected_, last_error_, mutex_, buffer_,
  \* the threads using the Channel: position and locals of the running call
  cpc, call,
  \* the connection of socket_fd_ as the peer sees it, and the calls made so far
  wire, nextTag,
  \* observations: the guarded fields the last step touched, the last finished call
  access, lastRet,
  \* IService::Execute: the bytes the last call left in `output`, and that call
  output, executed,
  \* ServiceManager: services_ (`registry`) and mutex_ (`reg_mutex`, the holder)
  registry, reg_mutex,
  \* the threads using the ServiceManager: position, arguments and result of
  \* each one's call, and the calls made so far
  rpc, rcall, rret, rcalls,
  \* ByteBuffer: the byte order of the host, the caller's region (buffer_),
  \* the cursor, what the last call did, where whole values lie, the calls made
  host, region, position_, bufOp, layout, ops,
  \* ThreadPool: tasks_, stop_, each worker's position and task, the workers
  \* joined so far
  tasks_, stop_, wpc, wtask, joined,
  \* the threads using the ThreadPool: the position of each one's call, the
  \* last call that returned, the tasks submitted so far, and by whom and
  \* with what outcome each was run
  ppc, pret, submitted, ran

serverVars == <<running_, server_fd_, epoll_fd_, timer_fd_, clients_, thr, state,
                spc, events, ctl, openFds, epollReg, sockFile, now, setupFailed,
                createCalls, lastReq>>

chanVars == <<socket_fd_, connected_, last_error_, mutex_, buffer_, cpc, call, wire,
              nextTag, access, lastRet>>

svcVars == <<output, executed>>

regVars == <<registry, reg_mutex, rpc, rcall, rret, rcalls>>

bufVars == <<host, region, position_, bufOp, layout, ops>>

poolVars == <<tasks_, stop_, wpc, wtask, joined, ppc, pret, submitted, ran>>

vars == <<serverVars, chanVars, svcVars, regVars, bufVars, poolVars>>

\* a process that has no ByteBuffer of its own under observation
BufferUnused ==
  /\ host = "little" /\ region = << >> /\ position_ = 0
  /\ bufOp = [op |-> "none"] /\ layout = {} /\ ops = 0

\* a process that never constructs a ThreadPool
PoolUnused ==
  /\ tasks_ = << >> /\ stop_ = FALSE /\ wpc = << >>
  /\ wtask = << >> /\ joined = {} /\ ppc = << >> /\ pret = << >>
  /\ submitted = << >> /\ ran = << >>

\* ------------------------------------------------------------ byte codec
PutInt_HostOrder(v) ==
  << v % 256, (v \div 256) % 256, (v \div 65536) % 256, (v \div 16777216) % 256 >>

\* ByteBuffer::PutInt: htonl, most significant byte first
PutInt(v) ==
  << (v \div 16777216) % 256, (v \div 65536) % 256, (v \div 256) % 256, v % 256 >>

\* ByteBuffer::GetInt at 0-based offset pos of data: ntohl of 4 bytes
GetInt(data, pos) ==
  data[pos + 1] * 16777216 + data[pos + 2] * 65536 + data[pos + 3] * 256 + data[pos + 4]

\* ByteBuffer::GetByte at 0-based offset pos
GetByte(data, pos) == data[pos + 1]

\* ByteBuffer::PutLong of a value that is not negative: the high word, then
\* the low word, each through htonl
PutLong(v) ==
  LET high == (v \div 65536) \div 65536
  IN  PutInt(high) \o PutInt(v - high * 65536 * 65536)

\* ByteBuffer::PutString: the length through PutInt, then the characters
PutString(str) == PutInt(Len(str)) \o str

\* the doubles the calculator meets here and the 8 bytes each has in memory
\* (IEEE 754 binary64 on a little-endian host): PutDouble and GetDouble copy
\* these bytes as they are
DoubleImage ==
  [x \in {0, 1, 2, 4, 6, 8} |->
     <<0, 0, 0, 0, 0, 0>> \o
       CASE x = 0 -> <<0, 0>>
         [] x = 1 -> <<240, 63>>
         [] x = 2 -> <<0, 64>>
         [] x = 4 -> <<16, 64>>
         [] x = 6 -> <<24, 64>>
         [] x = 8 -> <<32, 64>>]

\* ByteBuffer::PutDouble
PutDouble(x) == DoubleImage[x]

\* ByteBuffer::GetDouble at 0-based offset pos
GetDouble(data, pos) ==
  CHOOSE x \in DOMAIN DoubleImage : DoubleImage[x] = SubSeq(data, pos + 1, pos + 8)

\* ByteBuffer::WriteBytes at 0-based position pos inside what is already written
WriteAt(buf, pos, bytes) ==
  [i \in 1 .. Len(buf) |->
     IF i > pos /\ i <= pos + Len(bytes) THEN bytes[i - pos] ELSE buf[i]]

\* the bytes a peer can put on the wire: one frame with each field chosen freely
MkFrame(start, declared, rid, version, payload, end) ==
  <<start>> \o PutInt(declared) \o PutInt(rid) \o <<version>> \o payload \o <<end>>

Payloads == { <<>>, <<5, 6>> }

WellFormed(rid, payload) ==
  MkFrame(START_BYTE, GetMinFrameSize + Len(payload), rid, VERSION, payload, END_BYTE)

\* what one recv() on a client connection can deliver: well-formed frames, a
\* frame whose TOTAL_LENGTH is one more than its size, a wrong START, a wrong
\* VERSION, and fewer bytes than a frame
Inbound ==
  { WellFormed(CalculatorRequestId, p) : p \in Payloads }
  \cup { WellFormed(UnknownRoutineId, <<>>),
         MkFrame(START_BYTE, GetMinFrameSize + 3, CalculatorRequestId, VERSION,
                 <<5, 6>>, END_BYTE),
         MkFrame(0, GetMinFrameSize, CalculatorRequestId, VERSION, <<>>, END_BYTE),
         MkFrame(START_BYTE, GetMinFrameSize, TimeRequestId, 2, <<>>, END_BYTE),
         <<START_BYTE, 0, 0, 0, 5>> }

\* ----------------------------------------------------------- the registry
\* ServiceManager::services_ after main() registered both services
services_ == {CalculatorRequestId, TimeRequestId}

\* what IService::Execute can do: throw, or return a byte count
HandlerOutcomes == {-1, 0, 13}

ExecuteService_ThrowLeaks(routine_id, h) ==
  IF routine_id \notin services_ THEN [n |-> 0, ran |-> FALSE]
  ELSE [n |-> IF h < 0 THEN 13 ELSE h, ran |-> TRUE]

\* ServiceManager::ExecuteService: h is the handler's behaviour (-1: it throws).
\* Returns the byte count and whether a handler was invoked.
ExecuteService(routine_id, h) ==
  IF routine_id \notin services_ THEN [n |-> 0, ran |-> FALSE]
  ELSE IF h < 0 THEN [n |-> 0, ran |-> TRUE]
  ELSE [n |-> h, ran |-> TRUE]

\* ------------------------------------------------------------ services
\* the texts the services put into their responses, as ASCII codes
\* CalculatorService::ExecuteOperation: error = "Division by zero"
DivisionByZeroText ==
  <<68, 105, 118, 105, 115, 105, 111, 110, 32, 98, 121, 32, 122, 101, 114,
    111>>

\* "Invalid operation code" of both services
InvalidOperationText ==
  <<73, 110, 118, 97, 108, 105, 100, 32, 111, 112, 101, 114, 97, 116, 105,
    111, 110, 32, 99, 111, 100, 101>>

\* std::string("Exception: ") of the catch blocks
ExceptionPrefix ==
  <<69, 120, 99, 101, 112, 116, 105, 111, 110, 58, 32>>

\* what() of the ByteBuffer constructor given length 0
LengthZeroWhat ==
  <<66, 121, 116, 101, 66, 117, 102, 102, 101, 114, 58, 32, 108, 101, 110,
    103, 116, 104, 32, 109, 117, 115, 116, 32, 98, 101, 32, 62, 32, 48>>

\* what() of ByteBuffer::ReadBytes past the end
UnderflowWhat ==
  <<66, 121, 116, 101, 66, 117, 102, 102, 101, 114, 58, 32, 114, 101, 97,
    100, 32, 119, 111, 117, 108, 100, 32, 101, 120, 99, 101, 101, 100, 32,
    98, 117, 102, 102, 101, 114, 32, 98, 111, 117, 110, 100, 115>>

\* GetCurrentTimestamp: "Failed to get timestamp: " + e.what()
TimestampFailedText ==
  <<70, 97, 105, 108, 101, 100, 32, 116, 111, 32, 103, 101, 116, 32, 116,
    105, 109, 101, 115, 116, 97, 109, 112, 58, 32, 115, 116, 100, 58, 58, 98,
    97, 100, 95, 97, 108, 108, 111, 99>>

\* readings of system_clock in GetCurrentTimestamp: the text of put_time with
\* milliseconds (time zone UTC) and the seconds since the epoch, one of them
\* the last second a 32-bit time_t holds
ClockReadings ==
  { [timestamp |->
         <<50, 48, 50, 54, 45, 49, 49, 45, 48, 49, 32, 49, 48, 58, 52, 49,
           58, 50, 49, 46, 48, 48, 48>>,
      unix_timestamp |-> 1793529681],
    [timestamp |->
         <<50, 48, 51, 56, 45, 48, 49, 45, 49, 57, 32, 48, 51, 58, 49, 52, 58,
           48, 55, 46, 48, 48, 48>>,
      unix_timestamp |-> 2147483647] }

\* GetResponseRoutineId() of the two services
CalculatorResponseId == 4097
TimeResponseId == 8193

\* the response frame as both services build it in `output`: the header with
\* a placeholder length, the body, END, then SetPosition(1) and
\* PutInt(total_len) over the placeholder; total_len is what Execute returns
ResponseFrame(response_id, body) ==
  LET written == <<START_BYTE>> \o PutInt(0) \o PutInt(response_id) \o <<VERSION>>
                   \o body \o <<END_BYTE>>
      total_len == Len(written)
  IN  [output |-> WriteAt(written, 1, PutInt(total_len)), n |-> total_len]

\* CalculatorService::ExecuteOperation: Add 1, Subtract 2, Multiply 3, Divide 4;
\* Status Success 0, DivisionByZero 1, InvalidOperation 2
ExecuteOperation(op, a, b) ==
  CASE op = 1 -> [status |-> 0, result |-> a + b, error |-> <<>>]
    [] op = 2 -> [status |-> 0, result |-> a - b, error |-> <<>>]
    [] op = 3 -> [status |-> 0, result |-> a * b, error |-> <<>>]
    [] op = 4 -> IF b = 0
                   THEN [status |-> 1, result |-> 0, error |-> DivisionByZeroText]
                   ELSE [status |-> 0, result |-> a \div b, error |-> <<>>]
    [] OTHER -> [status |-> 2, result |-> 0, error |-> InvalidOperationText]

\* the catch block of CalculatorService::Execute: Status::InvalidInput is 3
CalculatorError(what) ==
  ResponseFrame(CalculatorResponseId,
                <<3>> \o PutDouble(0) \o PutString(ExceptionPrefix \o what))

\* CalculatorService::Execute on the payload `input`: the ByteBuffer over an
\* empty input throws, GetByte and the two GetDouble throw past the end
CalculatorResponse(input) ==
  IF Len(input) = 0 THEN CalculatorError(LengthZeroWhat)
  ELSE IF Len(input) < 17 THEN CalculatorError(UnderflowWhat)
  ELSE LET r == ExecuteOperation(GetByte(input, 0), GetDouble(input, 1),
                                 GetDouble(input, 9))
       IN  ResponseFrame(CalculatorResponseId,
                         <<r.status>> \o PutDouble(r.result) \o PutString(r.error))

\* requests to the calculator: an operation code and two operands, every
\* result a double of the model; one division by zero, one unknown code
Operations ==
  { <<1, 4, 2>>, <<2, 4, 2>>, <<3, 4, 2>>, <<4, 4, 2>>, <<4, 1, 0>>, <<9, 2, 2>> }

\* payloads handed to the calculator: empty, too short, and the requests
CalculatorInputs ==
  Payloads \cup { <<r[1]>> \o PutDouble(r[2]) \o PutDouble(r[3]) : r \in Operations }

\* TimeService::GetCurrentTimestamp: Success with a reading of the clock, or
\* InvalidInput (2) with the text of the exception it caught
GetCurrentTimestamp ==
  { [status |-> 0, timestamp |-> c.timestamp, unix_timestamp |-> c.unix_timestamp,
     error |-> <<>>] : c \in ClockReadings }
  \cup { [status |-> 2, timestamp |-> <<>>, unix_timestamp |-> 0,
          error |-> TimestampFailedText] }

\* the body of a TimeService response
TimeBody(r) ==
  <<r.status>> \o PutString(r.timestamp) \o PutLong(r.unix_timestamp)
    \o PutString(r.error)

\* TimeService::Execute on the payload `input`: the responses it can build.
\* GetTimestamp is 1; any other code is InvalidOperation (1); the catch block
\* answers InvalidInput (2)
TimeResponses(input) ==
  IF Len(input) = 0
    THEN { ResponseFrame(TimeResponseId,
                         TimeBody([status |-> 2, timestamp |-> <<>>,
                                   unix_timestamp |-> 0,
                                   error |-> ExceptionPrefix \o LengthZeroWhat])) }
  ELSE IF GetByte(input, 0) = 1
    THEN { ResponseFrame(TimeResponseId, TimeBody(r)) : r \in GetCurrentTimestamp }
  ELSE { ResponseFrame(TimeResponseId,
                       TimeBody([status |-> 1, timestamp |-> <<>>,
                                 unix_timestamp |-> 0,
                                 error |-> InvalidOperationText])) }

\* payloads handed to the time service: empty, GetTimestamp, an unknown code
TimeInputs == Payloads \cup { <<1>> }

\* no service has been executed
NothingExecuted ==
  /\ output = <<>>
  /\ executed = [service |-> 0, input |-> <<>>, n |-> 0]

\* CalculatorService::Execute
CalculatorService_Execute ==
  \E input \in CalculatorInputs :
    LET r == CalculatorResponse(input)
    IN  /\ output' = r.output
        /\ executed' = [service |-> CalculatorResponseId, input |-> input, n |-> r.n]
        /\ UNCHANGED <<serverVars, chanVars, regVars, bufVars, poolVars>>

\* TimeService::Execute
TimeService_Execute ==
  \E input \in TimeInputs : \E r \in TimeResponses(input) :
    /\ output' = r.output
    /\ executed' = [service |-> TimeResponseId, input |-> input, n |-> r.n]
    /\ UNCHANGED <<serverVars, chanVars, regVars, bufVars, poolVars>>

\* --------------------------------------------------------- descriptors
FdSpace == 3 .. (6 + MaxClients)

LowestFree(open) == CHOOSE f \in FdSpace \ open : \A g \in FdSpace \ open : f <= g

\* lastReq when no client read was the last step; rc is what the last recv()
\* or a failed or empty epoll_wait() returned, closed the connections the
\* idle reaper closed
NoReq ==
  [fd |-> -1, data |-> <<>>, calls |-> <<>>, sends |-> <<>>, rc |-> "none", closed |-> {}]

\* UDSServer::RemoveSocketFile: unlink; ENOENT is not an error
RemoveSocketFile == FALSE

ServerInit ==
  /\ running_ = FALSE
  /\ server_fd_ = -1 /\ epoll_fd_ = -1 /\ timer_fd_ = -1
  /\ clients_ = << >>
  /\ thr = "none" /\ state = "CreateSocket" /\ spc = "unstarted" /\ events = <<>>
  /\ ctl = "idle"
  /\ openFds = {} /\ epollReg = {}
  /\ sockFile \in BOOLEAN
  /\ now = 0
  /\ setupFailed = FALSE /\ createCalls = 0
  /\ lastReq = NoReq

\* ------------------------------------------------- UDSServer: helpers
Remove_All(tbl, fd) == << >>

\* clients_.erase
Remove(tbl, fd) == [f \in DOMAIN tbl \ {fd} |-> tbl[f]]

CloseAllClients_Leak(open) == open

\* UDSServer::CloseAllClients: the descriptors left open after close(fd) of
\* every entry of the table
CloseAllClients(open) == open \ DOMAIN clients_

LoopCondition_NoFlag == state # "Exit"

\* ServerThreadFunc's loop condition: while (running_.load() && state != Exit)
LoopCondition == running_ /\ state # "Exit"

ListenResult_Always(ok) == "WaitAndHandleEvents"

\* HandleListenSocket's return value
ListenResult(ok) == IF ok THEN "WaitAndHandleEvents" ELSE "Cleanup"

AfterEvent ==
  /\ events' = Tail(events)
  /\ spc' = IF Tail(events) = <<>> THEN "loop" ELSE "events"

Cleared_Stale(fd) == fd

\* HandleCleanup: the member after `if (fd >= 0) { close(fd); fd = -1; }`
Cleared(fd) == -1

\* UDSServer::HandleCleanup
HandleCleanup ==
  /\ clients_' = << >>
  /\ openFds' = CloseAllClients(openFds) \ {timer_fd_, epoll_fd_, server_fd_}
  /\ epollReg' = {}
  /\ timer_fd_' = Cleared(timer_fd_)
  /\ epoll_fd_' = Cleared(epoll_fd_)
  /\ server_fd_' = Cleared(server_fd_)
  /\ sockFile' = RemoveSocketFile

HandleClientClose_Keep(fd) == UNCHANGED <<clients_, openFds, epollReg>>

\* UDSServer::HandleClientClose
HandleClientClose(fd) ==
  IF fd \notin DOMAIN clients_
  THEN UNCHANGED <<clients_, openFds, epollReg>>
  ELSE /\ clients_' = Remove(clients_, fd)
       /\ openFds' = openFds \ {fd}
       /\ epollReg' = epollReg \ {fd}

\* ------------------------------------ UDSServer: the controlling thread
\* UDSServer::Start
Start ==
  /\ ctl = "idle" /\ ~running_
  /\ running_' = TRUE
  /\ thr' = "live" /\ state' = "CreateSocket" /\ spc' = "loop" /\ events' = <<>>
  /\ setupFailed' = FALSE /\ createCalls' = 0 /\ lastReq' = NoReq
  /\ UNCHANGED <<server_fd_, epoll_fd_, timer_fd_, clients_, ctl, openFds, epollReg,
                 sockFile, now>>
  /\ UNCHANGED <<chanVars, svcVars, regVars, bufVars, poolVars>>

StoppedFlag_Kept == TRUE

\* UDSServer::Stop: running_.store(false)
StoppedFlag == FALSE

\* UDSServer::Stop on a server that is not running: if (!running_.load())
StopStopped ==
  /\ ctl = "idle" /\ ~running_
  /\ ctl' = "returning"
  /\ UNCHANGED <<running_, server_fd_, epoll_fd_, timer_fd_, clients_, thr, state, spc,
                 events, openFds, epollReg, sockFile, now, setupFailed, createCalls,
                 lastReq>>
  /\ UNCHANGED <<chanVars, svcVars, regVars, bufVars, poolVars>>

\* UDSServer::Stop on a server that is not running: return
StopReturn ==
  /\ ctl = "returning"
  /\ ctl' = "idle"
  /\ UNCHANGED <<running_, server_fd_, epoll_fd_, timer_fd_, clients_, thr, state, spc,
                 events, openFds, epollReg, sockFile, now, setupFailed, createCalls,
                 lastReq>>
  /\ UNCHANGED <<chanVars, svcVars, regVars, bufVars, poolVars>>

\* UDSServer::GetClientCount is entered by the controlling thread
GetClientCountCall ==
  /\ ctl = "idle"
  /\ ctl' = "client_count"
  /\ UNCHANGED <<running_, server_fd_, epoll_fd_, timer_fd_, clients_, thr, state, spc,
                 events, openFds, epollReg, sockFile, now, setupFailed, createCalls,
                 lastReq>>
  /\ UNCHANGED <<chanVars, svcVars, regVars, bufVars, poolVars>>

\* UDSServer::GetClientCount: return clients_.size(), read without a lock; the
\* value goes to the caller and into no field of the server
GetClientCount ==
  /\ ctl = "client_count"
  /\ ctl' = "idle"
  /\ UNCHANGED <<running_, server_fd_, epoll_fd_, timer_fd_, clients_, thr, state, spc,
                 events, openFds, epollReg, sockFile, now, setupFailed, createCalls,
                 lastReq>>
  /\ UNCHANGED <<chanVars, svcVars, regVars, bufVars, poolVars>>

\* UDSServer::Stop up to the join
StopBegin ==
  /\ ctl = "idle" /\ running_
  /\ running_' = StoppedFlag
  /\ ctl' = IF thr \in {"live", "finished"} THEN "joining" ELSE "idle"
  /\ UNCHANGED <<server_fd_, epoll_fd_, timer_fd_, clients_, thr, state, spc, events,
                 openFds, epollReg, sockFile, now, setupFailed, createCalls, lastReq>>
  /\ UNCHANGED <<chanVars, svcVars, regVars, bufVars, poolVars>>

\* UDSServer::Stop: server_thread_.join() returns
StopJoin ==
  /\ ctl = "joining" /\ thr = "finished"
  /\ thr' = "none" /\ ctl' = "idle"
  /\ UNCHANGED <<running_, server_fd_, epoll_fd_, timer_fd_, clients_, state, spc,
                 events, openFds, epollReg, sockFile, now, setupFailed, createCalls,
                 lastReq>>
  /\ UNCHANGED <<chanVars, svcVars, regVars, bufVars, poolVars>>

\* ------------------------------------------- UDSServer: the server thread
AtLoop == thr = "live" /\ spc = "loop"

\* the while condition is false: fall through to the unconditional cleanup
LoopExit ==
  /\ AtLoop /\ ~LoopCondition
  /\ spc' = "final" /\ lastReq' = NoReq
  /\ UNCHANGED <<running_, server_fd_, epoll_fd_, timer_fd_, clients_, thr, state,
                 events, ctl, openFds, epollReg, sockFile, now, setupFailed, createCalls>>
  /\ UNCHANGED <<chanVars, svcVars, regVars, bufVars, poolVars>>

\* UDSServer::HandleCreateSocket
HandleCreateSocket ==
  /\ AtLoop /\ LoopCondition /\ state = "CreateSocket"
  /\ createCalls' = createCalls + 1
  /\ \E outcome \in {"socket_fail", "nonblock_fail", "bind_fail", "ok"} :
       IF outcome = "ok"
       THEN /\ server_fd_' = LowestFree(openFds)
            /\ openFds' = openFds \cup {LowestFree(openFds)}
            /\ sockFile' = TRUE
            /\ state' = "ListenSocket"
            /\ UNCHANGED setupFailed
       ELSE /\ server_fd_' = -1
            /\ openFds' = openFds
            /\ sockFile' = RemoveSocketFile
            /\ state' = "Exit"
            /\ setupFailed' = TRUE
  /\ UNCHANGED <<running_, epoll_fd_, timer_fd_, clients_, thr, spc, events, ctl,
                 epollReg, now, lastReq>>
  /\ UNCHANGED <<chanVars, svcVars, regVars, bufVars, poolVars>>

\* UDSServer::HandleListenSocket with CreateInactivityTimer
HandleListenSocket ==
  /\ AtLoop /\ LoopCondition /\ state = "ListenSocket"
  /\ \E outcome \in {"listen_fail", "epoll_create_fail", "epoll_ctl_fail",
                     "timer_fail", "ok"} :
       LET efd == LowestFree(openFds)
           tfd == LowestFree(openFds \cup {efd})
       IN /\ state' = ListenResult(outcome = "ok")
          /\ setupFailed' = (outcome # "ok")
          /\ epoll_fd_' = IF outcome \in {"listen_fail", "epoll_create_fail"} THEN -1 ELSE efd
          /\ timer_fd_' = IF outcome = "ok" THEN tfd ELSE -1
          /\ openFds' = openFds \cup (CASE outcome = "ok" -> {efd, tfd}
                                      [] outcome \in {"epoll_ctl_fail", "timer_fail"} -> {efd}
                                      [] OTHER -> {})
          /\ epollReg' = CASE outcome = "ok" -> {server_fd_, tfd}
                           [] outcome = "timer_fail" -> {server_fd_}
                           [] OTHER -> {}
  /\ UNCHANGED <<running_, server_fd_, clients_, thr, spc, events, ctl, sockFile, now,
                 createCalls, lastReq>>
  /\ UNCHANGED <<chanVars, svcVars, regVars, bufVars, poolVars>>

EventsOf_NoTimer ==
  { [fd |-> f, ev |-> "IN"] : f \in epollReg \ {timer_fd_} }
  \cup { [fd |-> f, ev |-> "HUP"] : f \in epollReg \ {server_fd_, timer_fd_} }

\* the events one epoll_wait can report: the listening socket, the timer and
\* client connections (readable, or error/hang-up)
EventsOf ==
  { [fd |-> f, ev |-> "IN"] : f \in epollReg }
  \cup { [fd |-> f, ev |-> "HUP"] : f \in epollReg \ {server_fd_, timer_fd_} }

Batches ==
  { b \in UNION { [1..n -> EventsOf] : n \in 1..MaxEvents } :
      \A i, j \in DOMAIN b : i # j => b[i].fd # b[j].fd }

\* UDSServer::HandleWaitAndHandleEvents: epoll_wait returns, a batch of events
\* being one of batches
EpollWaitOf(batches) ==
  /\ AtLoop /\ LoopCondition /\ state = "WaitAndHandleEvents"
  /\ \/ events' \in batches /\ spc' = "events" /\ lastReq' = NoReq /\ UNCHANGED state
     \/ \E r \in {"epoll_timeout", "epoll_eintr", "epoll_error"} :
          /\ state' = IF r = "epoll_error" THEN "Cleanup" ELSE "WaitAndHandleEvents"
          /\ lastReq' = [NoReq EXCEPT !.rc = r]
          /\ UNCHANGED <<events, spc>>
  /\ UNCHANGED <<running_, server_fd_, epoll_fd_, timer_fd_, clients_, thr, ctl, openFds,
                 epollReg, sockFile, now, setupFailed, createCalls>>
  /\ UNCHANGED <<chanVars, svcVars, regVars, bufVars, poolVars>>

\* epoll_wait returns with at most MaxEvents events
EpollWait == EpollWaitOf(Batches)

\* state Cleanup of the loop
CleanupState ==
  /\ AtLoop /\ LoopCondition /\ state = "Cleanup"
  /\ HandleCleanup
  /\ state' = "Exit" /\ lastReq' = NoReq
  /\ UNCHANGED <<running_, thr, spc, events, ctl, now, setupFailed, createCalls>>
  /\ UNCHANGED <<chanVars, svcVars, regVars, bufVars, poolVars>>

\* the HandleCleanup() after the loop, then the thread function returns
FinalCleanup ==
  /\ thr = "live" /\ spc = "final"
  /\ HandleCleanup
  /\ spc' = "exited" /\ thr' = "finished" /\ events' = <<>>
  /\ UNCHANGED <<running_, state, ctl, now, setupFailed, createCalls, lastReq>>
  /\ UNCHANGED <<chanVars, svcVars, regVars, bufVars, poolVars>>

AtEvent == thr = "live" /\ spc = "events" /\ events # <<>>

\* UDSServer::HandleNewConnection
HandleNewConnection ==
  /\ AtEvent /\ Head(events).fd = server_fd_
  /\ AfterEvent
  /\ lastReq' = NoReq
  /\ \/ /\ Cardinality(DOMAIN clients_) < MaxClients
        /\ LET cfd == LowestFree(openFds)
           IN /\ clients_' = [f \in DOMAIN clients_ \cup {cfd} |->
                                IF f = cfd THEN [fd |-> cfd, last_activity |-> now]
                                ELSE clients_[f]]
              /\ openFds' = openFds \cup {cfd}
              /\ epollReg' = epollReg \cup {cfd}
     \/ \* accept, SetNonBlocking or epoll_ctl failed: the descriptor, if any, is closed
        UNCHANGED <<clients_, openFds, epollReg>>
  /\ UNCHANGED <<running_, server_fd_, epoll_fd_, timer_fd_, thr, state, ctl, sockFile,
                 now, setupFailed, createCalls>>
  /\ UNCHANGED <<chanVars, svcVars, regVars, bufVars, poolVars>>

Inactive_AtThreshold(age) == age >= INACTIVITY_TIMEOUT_SEC

\* HandleInactivityTimer: (now - client->last_activity) > INACTIVITY_TIMEOUT_SEC
Inactive(age) == age > INACTIVITY_TIMEOUT_SEC

\* UDSServer::HandleInactivityTimer
HandleInactivityTimer ==
  /\ AtEvent /\ Head(events).fd # server_fd_ /\ Head(events).fd = timer_fd_
  /\ AfterEvent
  /\ LET inactive_clients ==
           { f \in DOMAIN clients_ : Inactive(now - clients_[f].last_activity) }
     IN /\ lastReq' = [NoReq EXCEPT !.rc = "timer", !.closed = inactive_clients]
        /\ clients_' = [f \in DOMAIN clients_ \ inactive_clients |-> clients_[f]]
        /\ openFds' = openFds \ inactive_clients
        /\ epollReg' = epollReg \ inactive_clients
  /\ UNCHANGED <<running_, server_fd_, epoll_fd_, timer_fd_, thr, state, ctl, sockFile,
                 now, setupFailed, createCalls>>
  /\ UNCHANGED <<chanVars, svcVars, regVars, bufVars, poolVars>>

IsClientEvent(e) == e.fd # server_fd_ /\ e.fd # timer_fd_

\* EPOLLERR | EPOLLHUP on a client descriptor
ClientHangup ==
  /\ AtEvent /\ IsClientEvent(Head(events)) /\ Head(events).ev = "HUP"
  /\ AfterEvent
  /\ lastReq' = NoReq
  /\ HandleClientClose(Head(events).fd)
  /\ UNCHANGED <<running_, server_fd_, epoll_fd_, timer_fd_, thr, state, ctl, sockFile,
                 now, setupFailed, createCalls>>
  /\ UNCHANGED <<chanVars, svcVars, regVars, bufVars, poolVars>>

\* what send() on the non-blocking client socket can return for n bytes:
\* -1, a short count, or n
SendOutcomes(n) == {-1, n - 1, n}

VersionAccepted_Any(version) == TRUE

\* ProcessClientRequest: if (version != Protocol::VERSION) return 0
VersionAccepted(version) == version = VERSION

PayloadLen_WithEnd(len, payload_start) == len - payload_start

\* ProcessClientRequest: payload_len = len - payload_start - 1 (END_BYTE excluded)
PayloadLen(len, payload_start) == len - payload_start - 1

\* UDSServer::ProcessClientRequest: h is what the handler does, sent what send() returns.
\* The result records the ExecuteService calls and the send() calls it made.
ProcessClientRequest(client_fd, data, h, sent) ==
  LET len == Len(data)
      dropped == [fd |-> client_fd, data |-> data, calls |-> <<>>, sends |-> <<>>]
  IN IF len < GetMinFrameSize THEN dropped
     ELSE IF GetByte(data, 0) # START_BYTE THEN dropped
     ELSE LET routine_id == GetInt(data, 5)
              version == GetByte(data, 9)
              payload_start == 10
              payload_len == PayloadLen(len, payload_start)
              r == ExecuteService(routine_id, h)
          IN IF ~VersionAccepted(version) THEN dropped
             ELSE [fd |-> client_fd, data |-> data,
                   calls |-> << [routine_id |-> routine_id,
                                 input |-> SubSeq(data, payload_start + 1,
                                                  payload_start + payload_len),
                                 h |-> h, ran |-> r.ran, n |-> r.n] >>,
                   sends |-> IF r.n > 0
                             THEN << [fd |-> client_fd, len |-> r.n, sent |-> sent] >>
                             ELSE <<>>]

\* the frames for which ProcessClientRequest gets as far as a registered handler
Dispatches(data) ==
  ProcessClientRequest(0, data, 0, 0).calls # <<>>
    /\ ProcessClientRequest(0, data, 0, 0).calls[1].ran

\* UDSServer::HandleClientData, and HandleClientClose when it returns false;
\* inbound is what its one recv() can deliver
HandleClientDataOf(inbound) ==
  /\ AtEvent /\ IsClientEvent(Head(events)) /\ Head(events).ev = "IN"
  /\ AfterEvent
  /\ LET client_fd == Head(events).fd
     IN IF client_fd \notin DOMAIN clients_
        THEN /\ HandleClientClose(client_fd)
             /\ lastReq' = NoReq
        ELSE \/ \* recv fails, or returns 0: the peer closed
                /\ HandleClientClose(client_fd)
                /\ \E rc \in {"error", "eof"} :
                     lastReq' = [NoReq EXCEPT !.fd = client_fd, !.rc = rc]
             \/ \* EAGAIN / EWOULDBLOCK
                /\ UNCHANGED <<clients_, openFds, epollReg>>
                /\ lastReq' = [NoReq EXCEPT !.fd = client_fd, !.rc = "eagain"]
             \/ \E data \in inbound :
                  \E h \in IF Dispatches(data) THEN HandlerOutcomes ELSE {0} :
                  \E sent \in IF h > 0 THEN SendOutcomes(h) ELSE {-1} :
                    /\ clients_' = [clients_ EXCEPT ![client_fd].last_activity = now]
                    /\ lastReq' = ProcessClientRequest(client_fd, data, h, sent)
                                     @@ [rc |-> "data", closed |-> {}]
                    /\ UNCHANGED <<openFds, epollReg>>
  /\ UNCHANGED <<running_, server_fd_, epoll_fd_, timer_fd_, thr, state, ctl, sockFile,
                 now, setupFailed, createCalls>>
  /\ UNCHANGED <<chanVars, svcVars, regVars, bufVars, poolVars>>

\* a readability event of a client that sends one frame at a time, each frame
\* delivered by one recv()
HandleClientData == HandleClientDataOf(Inbound)

\* the clock advances
Tick ==
  /\ now + TickSec <= MaxTime
  /\ now' = now + TickSec
  /\ UNCHANGED <<running_, server_fd_, epoll_fd_, timer_fd_, clients_, thr, state, spc,
                 events, ctl, openFds, epollReg, sockFile, setupFailed, createCalls,
                 lastReq>>
  /\ UNCHANGED <<chanVars, svcVars, regVars, bufVars, poolVars>>

ServerThreadStep ==
  \/ LoopExit
  \/ HandleCreateSocket
  \/ HandleListenSocket
  \/ EpollWait
  \/ CleanupState
  \/ FinalCleanup
  \/ HandleNewConnection
  \/ HandleInactivityTimer
  \/ ClientHangup
  \/ HandleClientData

\* ------------------------------------------------------------ Channel
Threads == 1 .. NumThreads

\* a request as ExecuteRPC receives it: the bytes and request_len; the bytes of
\* the oversize request are never copied, only its length is looked at
Requests ==
  { [data |-> p, len |-> Len(p)] : p \in Payloads }
    \cup { [data |-> <<>>, len |-> MAX_PACKET_SIZE - (GetMinFrameSize - 1)] }

\* response_buffer_size of a call
BufSizes == { GetMinFrameSize + 1, MAX_PACKET_SIZE }

NoWire == [up |-> FALSE, rx |-> <<>>, pending |-> <<>>]

NewWire == [up |-> TRUE, rx |-> <<>>, pending |-> <<>>]

NoCall ==
  [op |-> "none", tag |-> 0, routine_id |-> 0, req |-> [data |-> <<>>, len |-> 0],
   bufsize |-> 0, received |-> <<>>, sends |-> 0, sendFailed |-> FALSE]

NoAccess == [fields |-> {}, locked |-> TRUE]

NoRet == [ret |-> "none", call |-> NoCall]

\* the channel of a process that runs no client
ChannelUnused ==
  /\ socket_fd_ = -1
  /\ connected_ = FALSE
  /\ last_error_ = ""
  /\ mutex_ = 0
  /\ buffer_ = <<>>
  /\ cpc = [t \in Threads |-> "idle"]
  /\ call = [t \in Threads |-> NoCall]
  /\ wire = NoWire
  /\ nextTag = 1
  /\ access = NoAccess
  /\ lastRet = NoRet

\* the constructor has run Connect() once, which succeeded or failed
ChannelInit ==
  /\ \/ socket_fd_ = LowestFree({}) /\ connected_ = TRUE /\ last_error_ = ""
        /\ wire = NewWire
     \/ socket_fd_ = -1 /\ connected_ = FALSE /\ last_error_ = "Connect failed"
        /\ wire = NoWire
  /\ mutex_ = 0
  /\ buffer_ = <<>>
  /\ cpc = [t \in Threads |-> "idle"]
  /\ call = [t \in Threads |-> NoCall]
  /\ nextTag = 1
  /\ access = NoAccess
  /\ lastRet = NoRet

\* the fields of the channel that its lock protects, as touched by one step
Touch(t, fields) == [fields |-> fields, locked |-> mutex_ = t]

\* the call of thread t returns r to its caller
Return(t, r, c) ==
  /\ cpc' = [cpc EXCEPT ![t] = "idle"]
  /\ call' = [call EXCEPT ![t] = NoCall]
  /\ lastRet' = [ret |-> r, call |-> c]

\* Connect() returns r: to the caller of Connect(), or into EnsureConnected()
ConnectReturns(t, op, r) ==
  IF op = "ExecuteRPC"
    THEN /\ cpc' = [cpc EXCEPT ![t] = IF r THEN "rpc_lock" ELSE "ensure_failed"]
         /\ call' = call
         /\ lastRet' = NoRet
    ELSE /\ cpc' = [cpc EXCEPT ![t] = "idle"]
         /\ call' = [call EXCEPT ![t] = NoCall]
         /\ lastRet' = [ret |-> IF r THEN "true" ELSE "false",
                        call |-> [NoCall EXCEPT !.op = "Connect"]]

AlreadyConnected_Never(c, fd) == FALSE

\* Connect: if (connected_.load() && socket_fd_ >= 0) return true
AlreadyConnected(c, fd) == c /\ fd >= 0

\* Connect(), up to the socket it creates: called on the channel, or from
\* EnsureConnected()
ConnectLocked(t) ==
  /\ cpc[t] \in {"idle", "ensure_connect"}
  /\ mutex_ = 0
  /\ LET op == IF cpc[t] = "idle" THEN "Connect" ELSE "ExecuteRPC" IN
     IF AlreadyConnected(connected_, socket_fd_)
       THEN /\ ConnectReturns(t, op, TRUE)
            /\ UNCHANGED <<socket_fd_, connected_, last_error_, mutex_, wire>>
       ELSE \E ok \in BOOLEAN :
              /\ wire' = NoWire
              /\ IF ok
                   THEN /\ socket_fd_' = LowestFree({})
                        /\ mutex_' = t
                        /\ cpc' = [cpc EXCEPT ![t] = "connecting"]
                        /\ call' = [call EXCEPT ![t].op = op]
                        /\ lastRet' = NoRet
                        /\ UNCHANGED last_error_
                   ELSE /\ socket_fd_' = -1
                        /\ last_error_' = "Failed to create socket"
                        /\ ConnectReturns(t, op, FALSE)
                        /\ UNCHANGED mutex_
              /\ UNCHANGED connected_
  /\ access' = [fields |-> {"socket_fd_"}, locked |-> TRUE]
  /\ UNCHANGED <<buffer_, nextTag>>
  /\ UNCHANGED <<serverVars, svcVars, regVars, bufVars, poolVars>>

ConnectErrors_Silent == {""}

\* last_error_ after connect(), poll() or SO_ERROR reported a failure
ConnectErrors == {"Connect failed", "Connection timeout", "Connection failed"}

\* Connect(), from connect() to its return
ConnectResult(t) ==
  /\ cpc[t] = "connecting"
  /\ \/ /\ connected_' = TRUE
        /\ last_error_' = ""
        /\ wire' = NewWire
        /\ ConnectReturns(t, call[t].op, TRUE)
        /\ UNCHANGED socket_fd_
     \/ \E e \in ConnectErrors :
          /\ last_error_' = e
          /\ socket_fd_' = -1
          /\ ConnectReturns(t, call[t].op, FALSE)
          /\ UNCHANGED <<connected_, wire>>
  /\ access' = Touch(t, {"socket_fd_", "last_error_"})
  /\ mutex_' = 0
  /\ UNCHANGED <<buffer_, nextTag>>
  /\ UNCHANGED <<serverVars, svcVars, regVars, bufVars, poolVars>>

AfterClose_Stale(fd) == fd

\* Disconnect: socket_fd_ = -1 after close(socket_fd_)
AfterClose(fd) == -1

\* Channel::Impl::Disconnect; `closed` is the descriptor it handed to close(),
\* or -1
Disconnect(t) ==
  /\ cpc[t] = "idle"
  /\ mutex_ = 0
  /\ IF socket_fd_ >= 0
       THEN /\ socket_fd_' = AfterClose(socket_fd_)
            /\ wire' = NoWire
       ELSE UNCHANGED <<socket_fd_, wire>>
  /\ connected_' = FALSE
  /\ access' = [fields |-> {"socket_fd_"}, locked |-> TRUE]
  /\ lastRet' = [ret |-> "void", call |-> [NoCall EXCEPT !.op = "Disconnect"],
                 closed |-> IF socket_fd_ >= 0 THEN socket_fd_ ELSE -1]
  /\ UNCHANGED <<last_error_, mutex_, buffer_, cpc, call, nextTag>>
  /\ UNCHANGED <<serverVars, svcVars, regVars, bufVars, poolVars>>

IsConnected(t) ==
  /\ cpc[t] = "idle"
  /\ lastRet' = [ret |-> IF connected_ THEN "true" ELSE "false",
                 call |-> [NoCall EXCEPT !.op = "IsConnected"]]
  /\ access' = NoAccess
  /\ UNCHANGED <<socket_fd_, connected_, last_error_, mutex_, buffer_, cpc, call,
                 wire, nextTag>>
  /\ UNCHANGED <<serverVars, svcVars, regVars, bufVars, poolVars>>

GetLastError(t) ==
  /\ cpc[t] = "idle"
  /\ mutex_ = 0
  /\ lastRet' = [ret |-> last_error_,
                 call |-> [NoCall EXCEPT !.op = "GetLastError"]]
  /\ access' = [fields |-> {"last_error_"}, locked |-> TRUE]
  /\ UNCHANGED <<socket_fd_, connected_, last_error_, mutex_, buffer_, cpc, call,
                 wire, nextTag>>
  /\ UNCHANGED <<serverVars, svcVars, regVars, bufVars, poolVars>>

RoutineIds == {CalculatorRequestId, TimeRequestId}

\* the arguments of the ExecuteRPC calls that are made: routine id, request
\* and response buffer size are varied together, the small response buffer
\* going with the request without payload
CallInputs ==
  { c \in [routine_id : RoutineIds, req : Requests, bufsize : BufSizes] :
      /\ (c.routine_id = TimeRequestId) = (c.req.len = 0)
      /\ (c.routine_id = TimeRequestId) = (c.bufsize < MAX_PACKET_SIZE) }

\* ExecuteRPC up to the unlocked EnsureConnected() test, with its arguments
\* drawn from inputs
ExecuteRPCWith(t, inputs) ==
  /\ cpc[t] = "idle"
  /\ nextTag <= MaxCalls
  /\ \E c \in inputs :
       call' = [call EXCEPT ![t] = [NoCall EXCEPT !.op = "ExecuteRPC", !.tag = nextTag,
                                      !.routine_id = c.routine_id, !.req = c.req,
                                      !.bufsize = c.bufsize]]
  /\ nextTag' = nextTag + 1
  /\ cpc' = [cpc EXCEPT ![t] = IF connected_ /\ socket_fd_ >= 0
                                 THEN "rpc_lock" ELSE "ensure_connect"]
  /\ access' = Touch(t, IF connected_ THEN {"socket_fd_"} ELSE {})
  /\ lastRet' = NoRet
  /\ UNCHANGED <<socket_fd_, connected_, last_error_, mutex_, buffer_, wire>>
  /\ UNCHANGED <<serverVars, svcVars, regVars, bufVars, poolVars>>

ExecuteRPCCall(t) == ExecuteRPCWith(t, CallInputs)

\* ExecuteRPC when EnsureConnected() returned false
EnsureFailed(t) ==
  /\ cpc[t] = "ensure_failed"
  /\ last_error_' = "Failed to establish connection"
  /\ access' = Touch(t, {"last_error_"})
  /\ Return(t, "false", call[t])
  /\ UNCHANGED <<socket_fd_, connected_, mutex_, buffer_, wire, nextTag>>
  /\ UNCHANGED <<serverVars, svcVars, regVars, bufVars, poolVars>>

\* the request header with the length placeholder
RequestHeader(routine_id) ==
  <<START_BYTE>> \o PutInt(0) \o PutInt(routine_id) \o <<VERSION>>

\* the request frame as ExecuteRPC leaves it in buffer_: the length is written
\* over the placeholder once the END byte is in place
BuildRequest(routine_id, data) ==
  LET body == RequestHeader(routine_id) \o data \o <<END_BYTE>>
      frame_len == Len(body)
  IN  <<body[1]>> \o PutInt(frame_len) \o SubSeq(body, 6, frame_len)

TooLarge_Strict(pos, request_len) == pos + request_len > MAX_PACKET_SIZE

\* ExecuteRPC: if (pos + request_len >= buffer_.size())
TooLarge(pos, request_len) == pos + request_len >= MAX_PACKET_SIZE

\* ExecuteRPC from taking the lock to the frame in buffer_
BuildFrame(t) ==
  /\ cpc[t] = "rpc_lock"
  /\ mutex_ = 0
  /\ LET c == call[t]
         pos == Len(RequestHeader(c.routine_id))
     IN  IF c.req.len > 0 /\ TooLarge(pos, c.req.len)
           THEN /\ buffer_' = RequestHeader(c.routine_id)
                /\ last_error_' = "Request payload too large"
                /\ Return(t, "false", c)
                /\ UNCHANGED mutex_
           ELSE /\ buffer_' = BuildRequest(c.routine_id, c.req.data)
                /\ mutex_' = t
                /\ cpc' = [cpc EXCEPT ![t] = "rpc_send"]
                /\ lastRet' = NoRet
                /\ UNCHANGED <<last_error_, call>>
  /\ access' = [fields |-> {"buffer_", "last_error_"}, locked |-> TRUE]
  /\ UNCHANGED <<socket_fd_, connected_, wire, nextTag>>
  /\ UNCHANGED <<serverVars, svcVars, regVars, bufVars, poolVars>>

\* the first SendData of ExecuteRPC; on failure the channel is marked
\* disconnected before the retry
FirstSend(t) ==
  /\ cpc[t] = "rpc_send"
  /\ \/ /\ socket_fd_ >= 0
        /\ wire.up
        /\ wire' = [wire EXCEPT !.pending =
                      Append(@, [tag |-> call[t].tag, rid |-> call[t].routine_id])]
        /\ call' = [call EXCEPT ![t].sends = @ + 1]
        /\ cpc' = [cpc EXCEPT ![t] = "rpc_recv_head"]
        /\ UNCHANGED <<connected_, last_error_>>
     \/ /\ last_error_' = "send failed"
        /\ connected_' = FALSE
        /\ call' = [call EXCEPT ![t].sends = @ + 1, ![t].sendFailed = TRUE]
        /\ cpc' = [cpc EXCEPT ![t] = "rpc_retry"]
        /\ UNCHANGED wire
  /\ access' = Touch(t, {"socket_fd_", "buffer_", "last_error_"})
  /\ lastRet' = NoRet
  /\ UNCHANGED <<socket_fd_, mutex_, buffer_, nextTag>>
  /\ UNCHANGED <<serverVars, svcVars, regVars, bufVars, poolVars>>

\* what locking a std::mutex that the calling thread already owns can do: the
\* thread blocks on itself for ever, or the library reports the deadlock by
\* throwing std::system_error
RelockOutcomes == {"deadlock", "system_error"}

\* the retry of ExecuteRPC: Connect() is called with mutex_ held by the caller,
\* and Connect() begins by locking mutex_
RetryConnect(t) ==
  /\ cpc[t] = "rpc_retry"
  /\ mutex_ = t
  /\ \E o \in RelockOutcomes :
       IF o = "deadlock"
         THEN /\ cpc' = [cpc EXCEPT ![t] = "deadlocked"]
              /\ lastRet' = NoRet
              /\ UNCHANGED <<mutex_, call>>
         ELSE /\ mutex_' = 0
              /\ Return(t, "system_error", call[t])
  /\ access' = NoAccess
  /\ UNCHANGED <<socket_fd_, connected_, last_error_, buffer_, wire, nextTag>>
  /\ UNCHANGED <<serverVars, svcVars, regVars, bufVars, poolVars>>

Min(a, b) == IF a <= b THEN a ELSE b

\* the byte values of what was received
Bytes(r) == [i \in DOMAIN r |-> r[i].b]

\* the bytes of a response, each marked with the call it answers
Tagged(frame, tag) == [i \in DOMAIN frame |-> [b |-> frame[i], tag |-> tag]]

\* the second loop of ReceiveData goes on reading
MoreToRead(received, max_len) ==
  Len(received) < GetInt(Bytes(received), 1) /\ Len(received) < max_len

\* ReceiveData returned false: ExecuteRPC marks the channel disconnected
ReceiveFailed(t) ==
  /\ connected_' = FALSE
  /\ last_error_' = "Failed to receive response"
  /\ mutex_' = 0
  /\ Return(t, "false", call[t])
  /\ UNCHANGED wire

\* the byte counts one recv() can return when n bytes can be taken: all of them,
\* or a short read that ends one byte before or exactly at the frame header
RecvSizes(n) == { Min(n, s) : s \in {GetMinFrameSize - 1, GetMinFrameSize, n} }

\* one recv() that delivers k bytes into the response buffer
Deliver(t, k) ==
  LET c == [call[t] EXCEPT !.received = @ \o SubSeq(wire.rx, 1, k)] IN
  /\ wire' = [wire EXCEPT !.rx = SubSeq(@, k + 1, Len(@))]
  /\ IF Len(c.received) < GetMinFrameSize
       THEN /\ cpc' = [cpc EXCEPT ![t] = "rpc_recv_head"]
            /\ call' = [call EXCEPT ![t] = c]
            /\ lastRet' = NoRet
            /\ UNCHANGED mutex_
       ELSE IF MoreToRead(c.received, c.bufsize)
         THEN /\ cpc' = [cpc EXCEPT ![t] = "rpc_recv_body"]
              /\ call' = [call EXCEPT ![t] = c]
              /\ lastRet' = NoRet
              /\ UNCHANGED mutex_
         ELSE /\ mutex_' = 0
              /\ Return(t, "true", c)
  /\ UNCHANGED <<connected_, last_error_>>

\* ReceiveData, first loop: until the minimum frame size is there
ReceiveHead(t) ==
  /\ cpc[t] = "rpc_recv_head"
  /\ LET n == Min(Len(wire.rx), call[t].bufsize - Len(call[t].received)) IN
     IF n = 0
       THEN ReceiveFailed(t)
       ELSE \E k \in RecvSizes(n) : Deliver(t, k)
  /\ access' = Touch(t, {"socket_fd_", "last_error_"})
  /\ UNCHANGED <<socket_fd_, buffer_, nextTag>>
  /\ UNCHANGED <<serverVars, svcVars, regVars, bufVars, poolVars>>

\* ReceiveData, second loop: until the declared length or the buffer is full;
\* recv() returning 0 leaves the loop
ReceiveBody(t) ==
  /\ cpc[t] = "rpc_recv_body"
  /\ LET n == Min(Len(wire.rx), call[t].bufsize - Len(call[t].received)) IN
     IF n = 0
       THEN IF wire.up
              THEN ReceiveFailed(t)
              ELSE /\ mutex_' = 0
                   /\ Return(t, "true", call[t])
                   /\ UNCHANGED <<connected_, last_error_, wire>>
       ELSE \E k \in RecvSizes(n) : Deliver(t, k)
  /\ access' = Touch(t, {"socket_fd_", "last_error_"})
  /\ UNCHANGED <<socket_fd_, buffer_, nextTag>>
  /\ UNCHANGED <<serverVars, svcVars, regVars, bufVars, poolVars>>

\* the peer answers the oldest request it has read: a whole response frame, or
\* all but its last byte before the peer goes away
PeerRespond ==
  /\ wire.up
  /\ wire.pending # <<>>
  /\ \E p \in Payloads, cut \in {0, 1} :
       LET q == Head(wire.pending)
           frame == WellFormed(q.rid, p)
       IN  wire' = [up |-> cut = 0,
                    rx |-> wire.rx \o Tagged(SubSeq(frame, 1, Len(frame) - cut), q.tag),
                    pending |-> Tail(wire.pending)]
  /\ access' = NoAccess
  /\ lastRet' = NoRet
  /\ UNCHANGED <<socket_fd_, connected_, last_error_, mutex_, buffer_, cpc, call, nextTag>>
  /\ UNCHANGED <<serverVars, svcVars, regVars, bufVars, poolVars>>

\* the peer closes the connection
PeerClose ==
  /\ wire.up
  /\ wire' = [wire EXCEPT !.up = FALSE, !.pending = <<>>]
  /\ access' = NoAccess
  /\ lastRet' = NoRet
  /\ UNCHANGED <<socket_fd_, connected_, last_error_, mutex_, buffer_, cpc, call, nextTag>>
  /\ UNCHANGED <<serverVars, svcVars, regVars, bufVars, poolVars>>

ChannelNext ==
  \/ \E t \in Threads : ConnectLocked(t)
  \/ \E t \in Threads : ConnectResult(t)
  \/ \E t \in Threads : Disconnect(t)
  \/ \E t \in Threads : IsConnected(t)
  \/ \E t \in Threads : GetLastError(t)
  \/ \E t \in Threads : ExecuteRPCCall(t)
  \/ \E t \in Threads : EnsureFailed(t)
  \/ \E t \in Threads : BuildFrame(t)
  \/ \E t \in Threads : FirstSend(t)
  \/ \E t \in Threads : RetryConnect(t)
  \/ \E t \in Threads : ReceiveHead(t)
  \/ \E t \in Threads : ReceiveBody(t)
  \/ PeerRespond
  \/ PeerClose

\* ------------------------------------------------------ ServiceManager
\* what() of ByteBuffer::WriteBytes past the end
OverflowWhat ==
  <<66, 121, 116, 101, 66, 117, 102, 102, 101, 114, 58, 32, 119, 114, 105,
    116, 101, 32, 119, 111, 117, 108, 100, 32, 101, 120, 99, 101, 101, 100,
    32, 98, 117, 102, 102, 101, 114, 32, 98, 111, 117, 110, 100, 115>>

\* the services handed to RegisterService: the two of main(), a second service
\* declaring the calculator's request id, and the null pointer
NullService == [name |-> "null", rid |-> 0]

Services ==
  { [name |-> "CalculatorService", rid |-> CalculatorRequestId],
    [name |-> "TimeService", rid |-> TimeRequestId],
    [name |-> "MockService", rid |-> CalculatorRequestId] }

\* services_ once main() or the test fixture has registered both services
RegisteredByMain ==
  (CalculatorRequestId :> "CalculatorService") @@ (TimeRequestId :> "TimeService")

\* the calls made on the ServiceManager: none running, none made
NoRegistryCall == [op |-> "none", service |-> NullService, routine_id |-> 0,
                   input |-> <<>>, output_len |-> 0]

NoRegistryResult == [ret |-> "none", n |-> 0, output |-> <<>>]

RegistryIdle ==
  /\ reg_mutex = 0
  /\ rpc = [t \in Threads |-> "idle"]
  /\ rcall = [t \in Threads |-> NoRegistryCall]
  /\ rret = [t \in Threads |-> NoRegistryResult]
  /\ rcalls = 0

\* a process without a ServiceManager
RegistryUnused == registry = << >> /\ RegistryIdle

\* the ServiceManager of the server process, used by its loop thread only
RegistryAfterMain == registry = RegisteredByMain /\ RegistryIdle

\* a ServiceManager about to be used by several threads: as constructed, or
\* with both services registered
RegistryInit == registry \in {<< >>, RegisteredByMain} /\ RegistryIdle

MutexFree_Always(m) == TRUE

\* std::lock_guard<std::mutex> lock(mutex_) gets past its constructor
MutexFree(m) == m = 0

\* a call returns: the kind of its result ("true", "false", "void", or "size_t"
\* with the count n), and the thread is free for the next call
RegistryReturn(t, r, n, out) ==
  /\ rret' = [rret EXCEPT ![t] = [ret |-> r, n |-> n, output |-> out]]
  /\ rpc' = [rpc EXCEPT ![t] = "idle"]

\* a thread enters a call
RegistryEnter(t, c, at) ==
  /\ rpc[t] = "idle"
  /\ rcalls < MaxCalls
  /\ rcalls' = rcalls + 1
  /\ rcall' = [rcall EXCEPT ![t] = c]
  /\ rret' = [rret EXCEPT ![t] = NoRegistryResult]
  /\ rpc' = [rpc EXCEPT ![t] = at]

\* RegisterService on a null pointer: false before the lock is taken
RegisterNull(t) ==
  /\ rpc[t] = "idle"
  /\ rcalls < MaxCalls
  /\ rcalls' = rcalls + 1
  /\ rcall' = [rcall EXCEPT ![t] = [NoRegistryCall EXCEPT !.op = "RegisterService"]]
  /\ rret' = [rret EXCEPT ![t] = [ret |-> "false", n |-> 0, output |-> <<>>]]
  /\ UNCHANGED <<registry, reg_mutex, rpc>>
  /\ UNCHANGED <<serverVars, chanVars, svcVars, bufVars, poolVars>>

\* RegisterService on a service, up to the lock_guard
RegisterService(t) ==
  /\ \E s \in Services :
       RegistryEnter(t, [NoRegistryCall EXCEPT !.op = "RegisterService", !.service = s,
                                               !.routine_id = s.rid], "reg_lock")
  /\ UNCHANGED <<registry, reg_mutex>>
  /\ UNCHANGED <<serverVars, chanVars, svcVars, bufVars, poolVars>>

\* RegisterService: the lock is taken and GetRequestRoutineId() read
RegisterLock(t) ==
  /\ rpc[t] = "reg_lock"
  /\ MutexFree(reg_mutex)
  /\ reg_mutex' = t
  /\ rpc' = [rpc EXCEPT ![t] = "reg_find"]
  /\ UNCHANGED <<registry, rcall, rret, rcalls>>
  /\ UNCHANGED <<serverVars, chanVars, svcVars, bufVars, poolVars>>

AlreadyRegistered_Never(reg, routine_id) == FALSE

\* RegisterService: services_.find(routine_id) != services_.end()
AlreadyRegistered(reg, routine_id) == routine_id \in DOMAIN reg

\* RegisterService: false if the routine id is already registered
RegisterFind(t) ==
  /\ rpc[t] = "reg_find"
  /\ IF AlreadyRegistered(registry, rcall[t].routine_id)
       THEN /\ RegistryReturn(t, "false", 0, <<>>)
            /\ reg_mutex' = 0
       ELSE /\ rpc' = [rpc EXCEPT ![t] = "reg_insert"]
            /\ UNCHANGED <<reg_mutex, rret>>
  /\ UNCHANGED <<registry, rcall, rcalls>>
  /\ UNCHANGED <<serverVars, chanVars, svcVars, bufVars, poolVars>>

\* RegisterService: services_[routine_id] = service; true
RegisterInsert(t) ==
  /\ rpc[t] = "reg_insert"
  /\ registry' = (rcall[t].routine_id :> rcall[t].service.name) @@ registry
  /\ RegistryReturn(t, "true", 0, <<>>)
  /\ reg_mutex' = 0
  /\ UNCHANGED <<rcall, rcalls>>
  /\ UNCHANGED <<serverVars, chanVars, svcVars, bufVars, poolVars>>

\* the arguments of the ExecuteService calls: two calculator requests with room
\* for the response, one without, and a time request; on the registry as
\* constructed their routines are unknown
ExecuteInputs ==
  { [routine_id |-> CalculatorRequestId,
     input |-> <<1>> \o PutDouble(4) \o PutDouble(2), output_len |-> 256],
    [routine_id |-> CalculatorRequestId,
     input |-> <<4>> \o PutDouble(1) \o PutDouble(0), output_len |-> 256],
    [routine_id |-> CalculatorRequestId,
     input |-> <<1>> \o PutDouble(4) \o PutDouble(2), output_len |-> GetMinFrameSize - 1],
    [routine_id |-> TimeRequestId, input |-> <<1>>, output_len |-> 256] }

\* ExecuteService, up to the lock_guard
ExecuteServiceCall(t) ==
  /\ \E a \in ExecuteInputs :
       RegistryEnter(t, [NoRegistryCall EXCEPT !.op = "ExecuteService",
                                               !.routine_id = a.routine_id,
                                               !.input = a.input,
                                               !.output_len = a.output_len], "exec_lock")
  /\ UNCHANGED <<registry, reg_mutex>>
  /\ UNCHANGED <<serverVars, chanVars, svcVars, bufVars, poolVars>>

\* ExecuteService: the lock of the inner block is taken
ExecuteLock(t) ==
  /\ rpc[t] = "exec_lock"
  /\ MutexFree(reg_mutex)
  /\ reg_mutex' = t
  /\ rpc' = [rpc EXCEPT ![t] = "exec_find"]
  /\ UNCHANGED <<registry, rcall, rret, rcalls>>
  /\ UNCHANGED <<serverVars, chanVars, svcVars, bufVars, poolVars>>

LookupScopeEnd_Held(t) == t

\* ExecuteService: the holder of mutex_ once the inner block of thread t has
\* ended, by return or at its closing brace
LookupScopeEnd(t) == 0

\* ExecuteService: services_.find(routine_id); 0 if it is missing, else the
\* shared_ptr is copied; the inner block ends and the lock is released
ExecuteFind(t) ==
  /\ rpc[t] = "exec_find"
  /\ reg_mutex' = LookupScopeEnd(t)
  /\ IF rcall[t].routine_id \notin DOMAIN registry
       THEN /\ RegistryReturn(t, "size_t", 0, <<>>)
            /\ UNCHANGED rcall
       ELSE /\ rcall' = [rcall EXCEPT ![t].service =
                           [name |-> registry[rcall[t].routine_id],
                            rid |-> rcall[t].routine_id]]
            /\ rpc' = [rpc EXCEPT ![t] = "exec_run"]
            /\ UNCHANGED rret
  /\ UNCHANGED <<registry, rcalls>>
  /\ UNCHANGED <<serverVars, chanVars, svcVars, bufVars, poolVars>>

\* MockService::Execute of the tests: one payload byte 0x42
MockResponse == ResponseFrame(CalculatorResponseId + 1, <<66>>)

\* what Execute of the service `name` builds from `input` when `output` has room
ServiceResponses(name, input) ==
  CASE name = "CalculatorService" -> { CalculatorResponse(input) }
    [] name = "TimeService" -> TimeResponses(input)
    [] OTHER -> { MockResponse }

\* the response of the catch block of Execute to the overflow of `output`
OverflowResponse(name) ==
  IF name = "TimeService"
    THEN ResponseFrame(TimeResponseId,
                       TimeBody([status |-> 2, timestamp |-> <<>>, unix_timestamp |-> 0,
                                 error |-> ExceptionPrefix \o OverflowWhat]))
    ELSE CalculatorError(OverflowWhat)

\* IService::Execute as ExecuteService sees it: the bytes left in `output` and
\* the returned count, or a throw (n = -1). A response longer than output_len
\* throws std::overflow_error inside Execute; the services catch it and build
\* the error response, which throws again if it does not fit either; the
\* MockService has no catch block.
Execute(service, input, output_len) ==
  { IF r.n <= output_len THEN r
    ELSE IF service.name = "MockService" \/ OverflowResponse(service.name).n > output_len
      THEN [output |-> <<>>, n |-> -1]
    ELSE OverflowResponse(service.name) :
    r \in ServiceResponses(service.name, input) }

InputOf_First(t) == rcall[1].input

\* the input the call of thread t hands to Execute
InputOf(t) == rcall[t].input

\* ExecuteService: service->Execute(...) outside the lock; a std::exception
\* becomes 0
ExecuteRun(t) ==
  /\ rpc[t] = "exec_run"
  /\ \E r \in Execute(rcall[t].service, InputOf(t), rcall[t].output_len) :
       RegistryReturn(t, "size_t", IF r.n < 0 THEN 0 ELSE r.n, r.output)
  /\ UNCHANGED <<registry, reg_mutex, rcall, rcalls>>
  /\ UNCHANGED <<serverVars, chanVars, svcVars, bufVars, poolVars>>

\* IsRoutinePresent, GetServiceCount, Clear: up to the lock_guard
QueryCall(t) ==
  /\ \E q \in { [NoRegistryCall EXCEPT !.op = "IsRoutinePresent",
                                         !.routine_id = CalculatorRequestId] }
              \cup { [NoRegistryCall EXCEPT !.op = o] : o \in {"GetServiceCount", "Clear"} } :
       RegistryEnter(t, q, "query_lock")
  /\ UNCHANGED <<registry, reg_mutex>>
  /\ UNCHANGED <<serverVars, chanVars, svcVars, bufVars, poolVars>>

\* IsRoutinePresent, GetServiceCount, Clear: the lock is taken
QueryLock(t) ==
  /\ rpc[t] = "query_lock"
  /\ MutexFree(reg_mutex)
  /\ reg_mutex' = t
  /\ rpc' = [rpc EXCEPT ![t] = "query_body"]
  /\ UNCHANGED <<registry, rcall, rret, rcalls>>
  /\ UNCHANGED <<serverVars, chanVars, svcVars, bufVars, poolVars>>

\* ServiceManager::GetServiceCount: services_.size()
GetServiceCount(reg) == Cardinality(DOMAIN reg)

\* ServiceManager::IsRoutinePresent: services_.find(routine_id) != services_.end()
IsRoutinePresent(reg, routine_id) == routine_id \in DOMAIN reg

Clear_Keeps(reg) == reg

\* ServiceManager::Clear: services_.clear()
Clear(reg) == << >>

\* IsRoutinePresent, GetServiceCount, Clear: the body under the lock
QueryBody(t) ==
  /\ rpc[t] = "query_body"
  /\ reg_mutex' = 0
  /\ CASE rcall[t].op = "IsRoutinePresent" ->
            /\ RegistryReturn(t, IF IsRoutinePresent(registry, rcall[t].routine_id)
                                   THEN "true" ELSE "false", 0, <<>>)
            /\ UNCHANGED registry
       [] rcall[t].op = "GetServiceCount" ->
            /\ RegistryReturn(t, "size_t", GetServiceCount(registry), <<>>)
            /\ UNCHANGED registry
       [] OTHER ->
            /\ registry' = Clear(registry)
            /\ RegistryReturn(t, "void", 0, <<>>)
  /\ UNCHANGED <<rcall, rcalls>>
  /\ UNCHANGED <<serverVars, chanVars, svcVars, bufVars, poolVars>>

RegistryNext ==
  \/ \E t \in Threads : RegisterNull(t)
  \/ \E t \in Threads : RegisterService(t)
  \/ \E t \in Threads : RegisterLock(t)
  \/ \E t \in Threads : RegisterFind(t)
  \/ \E t \in Threads : RegisterInsert(t)
  \/ \E t \in Threads : ExecuteServiceCall(t)
  \/ \E t \in Threads : ExecuteLock(t)
  \/ \E t \in Threads : ExecuteFind(t)
  \/ \E t \in Threads : ExecuteRun(t)
  \/ \E t \in Threads : QueryCall(t)
  \/ \E t \in Threads : QueryLock(t)
  \/ \E t \in Threads : QueryBody(t)

\* a process in which several threads use one ServiceManager; its server and
\* its Channel are not used
ManagerInit ==
  ServerInit /\ ~sockFile /\ ChannelUnused /\ NothingExecuted /\ RegistryInit
  /\ BufferUnused /\ PoolUnused

RegistrySpec == ManagerInit /\ [][RegistryNext]_vars

\* a thread past the lock_guard of a call
UnderLock(t) ==
  \/ RegisterFind(t)
  \/ RegisterInsert(t)
  \/ ExecuteFind(t)
  \/ QueryBody(t)

\* a thread at the lock_guard of a call
AtLock(t) ==
  \/ RegisterLock(t)
  \/ ExecuteLock(t)
  \/ QueryLock(t)

\* threads are scheduled: a thread under the lock goes on, and a thread at a
\* lock that stays free takes it; nothing makes a handler's Execute return
RegistryFairSpec ==
  RegistrySpec /\ \A t \in Threads : WF_vars(UnderLock(t)) /\ WF_vars(AtLock(t))

\* a client process: the server of this process is never started
ClientInit ==
  ServerInit /\ ~sockFile /\ ChannelInit /\ NothingExecuted /\ RegistryUnused
  /\ BufferUnused /\ PoolUnused

ChannelSpec == ClientInit /\ [][ChannelNext]_vars

Init == ServerInit /\ ChannelUnused /\ NothingExecuted /\ RegistryAfterMain
  /\ BufferUnused /\ PoolUnused

Next ==
  \/ Start
  \/ StopStopped
  \/ StopReturn
  \/ GetClientCountCall
  \/ GetClientCount
  \/ StopBegin
  \/ StopJoin
  \/ ServerThreadStep
  \/ Tick

Spec == Init /\ [][Next]_vars

\* the batches of a busy wakeup: the reaper timer is reported first, then the
\* events of a batch that does not hold the timer (MAX_EVENTS is 64)
TimerFirstBatches ==
  { <<[fd |-> timer_fd_, ev |-> "IN"]>> \o b :
      b \in { c \in Batches : \A i \in DOMAIN c : c[i].fd # timer_fd_ } }

\* epoll_wait returns at a busy wakeup
BusyEpollWait == EpollWaitOf(TimerFirstBatches)

\* the frames a client writes: well-formed requests to the calculator
ClientFrames == { WellFormed(CalculatorRequestId, p) : p \in Payloads }

\* what one recv() of up to MAX_PACKET_SIZE bytes can deliver of frames written
\* back to back on the stream socket: one frame, two frames at once, a frame
\* without its last byte, and that last byte
StreamReads ==
  ClientFrames
  \cup { f \o g : f \in ClientFrames, g \in ClientFrames }
  \cup { SubSeq(f, 1, Len(f) - 1) : f \in ClientFrames }
  \cup { <<END_BYTE>> }

\* a readability event of a client whose frames arrive as the stream cuts them
StreamClientData == HandleClientDataOf(StreamReads)

\* a server under load: wakeups report several events, and reads do not end
\* where frames end
BusyNext ==
  \/ Start
  \/ StopBegin
  \/ StopJoin
  \/ Tick
  \/ LoopExit
  \/ HandleCreateSocket
  \/ HandleListenSocket
  \/ BusyEpollWait
  \/ CleanupState
  \/ FinalCleanup
  \/ HandleNewConnection
  \/ HandleInactivityTimer
  \/ ClientHangup
  \/ StreamClientData

BusySpec == Init /\ [][BusyNext]_vars

\* the server thread and the join make progress: every handler and every
\* epoll_wait (1 s timeout) returns
FairSpec == Spec /\ WF_vars(ServerThreadStep) /\ WF_vars(StopJoin)

\* the steps of a call that is under way on thread t: every system call of the
\* channel returns (connect and recv have timeouts), and a thread waiting for
\* mutex_ gets it if it is free again and again
InCall(t) ==
  \/ cpc[t] = "ensure_connect" /\ ConnectLocked(t)
  \/ ConnectResult(t)
  \/ EnsureFailed(t)
  \/ BuildFrame(t)
  \/ FirstSend(t)
  \/ RetryConnect(t)
  \/ ReceiveHead(t)
  \/ ReceiveBody(t)

ChannelFairSpec == ChannelSpec /\ \A t \in Threads : SF_vars(InCall(t))

\* the largest payload whose frame fits MAX_PACKET_SIZE
LargestPayload == [i \in 1 .. (MAX_PACKET_SIZE - GetMinFrameSize) |-> i % 256]

\* calls at the capacity of the scratch buffer: the largest payload that fits,
\* and the requests of the other calls, of which one is a byte too long
BoundaryInputs ==
  { [routine_id |-> CalculatorRequestId, req |-> r, bufsize |-> MAX_PACKET_SIZE] :
      r \in Requests \cup {[data |-> LargestPayload, len |-> Len(LargestPayload)]} }

\* one thread making calls at the capacity of the scratch buffer
EncoderNext ==
  \/ ExecuteRPCWith(1, BoundaryInputs)
  \/ InCall(1)
  \/ PeerRespond
  \/ PeerClose

EncoderSpec == ClientInit /\ [][EncoderNext]_vars

\* the three encoders of frames: the Channel at the capacity of its buffer and
\* the two service handlers on the payloads a request can carry
FrameNext ==
  \/ EncoderNext
  \/ CalculatorService_Execute
  \/ TimeService_Execute

FrameSpec == ClientInit /\ [][FrameNext]_vars

\* ------------------------------------------------------ client proxies
\* ByteBuffer::CheckBoundary at position pos of a buffer of `length` bytes
CheckBoundary(pos, size, length) == pos + size <= length

\* ByteBuffer::GetString at 0-based offset pos of data: the position after the
\* string, or -1 where GetInt or the length test throws std::underflow_error
AfterString(data, pos) ==
  IF ~CheckBoundary(pos, 4, Len(data)) THEN -1
  ELSE LET len == GetInt(data, pos)
       IN  IF len = 0 THEN pos + 4
           ELSE IF CheckBoundary(pos + 4, len, Len(data)) THEN pos + 4 + len
           ELSE -1

\* a Result with success = false and the kind of its error_message
ProxyFailure(message) == [success |-> FALSE, error_message |-> message]

\* Calculator::Impl::ExecuteOperation from the return of ExecuteRPC on: ret is
\* what ExecuteRPC did, data the response_len bytes it left in response_data.
\* Every throw of the ByteBuffer, and the std::system_error that can leave
\* ExecuteRPC, ends in the catch block
Calculator_ExecuteOperation(ret, data) ==
  IF ret = "system_error" THEN ProxyFailure("Exception")
  ELSE IF ret # "true" THEN ProxyFailure("RPC failed")
  ELSE IF Len(data) = 0 THEN ProxyFailure("Exception")
  ELSE IF GetByte(data, 0) # START_BYTE THEN ProxyFailure("Invalid response frame")
  ELSE IF ~CheckBoundary(1, 8, Len(data)) THEN ProxyFailure("Exception")
  ELSE IF GetInt(data, 5) # CalculatorResponseId
    THEN ProxyFailure("Unexpected routine ID in response")
  ELSE IF ~CheckBoundary(9, 10, Len(data)) THEN ProxyFailure("Exception")
  ELSE IF AfterString(data, 19) < 0 THEN ProxyFailure("Exception")
  ELSE IF GetByte(data, 10) = 0 THEN [success |-> TRUE, error_message |-> ""]
  ELSE ProxyFailure("error_msg")

\* TimeClient::Impl::GetCurrentTime from the return of ExecuteRPC on: after the
\* status byte it reads the timestamp string, the 8 bytes of GetLong and the
\* error string
TimeClient_GetCurrentTime(ret, data) ==
  IF ret = "system_error" THEN ProxyFailure("Exception")
  ELSE IF ret # "true" THEN ProxyFailure("RPC failed")
  ELSE IF Len(data) = 0 THEN ProxyFailure("Exception")
  ELSE IF GetByte(data, 0) # START_BYTE THEN ProxyFailure("Invalid response frame")
  ELSE IF ~CheckBoundary(1, 8, Len(data)) THEN ProxyFailure("Exception")
  ELSE IF GetInt(data, 5) # TimeResponseId
    THEN ProxyFailure("Unexpected routine ID in response")
  ELSE IF ~CheckBoundary(9, 2, Len(data)) THEN ProxyFailure("Exception")
  ELSE IF AfterString(data, 11) < 0 THEN ProxyFailure("Exception")
  ELSE IF ~CheckBoundary(AfterString(data, 11), 8, Len(data))
    THEN ProxyFailure("Exception")
  ELSE IF AfterString(data, AfterString(data, 11) + 8) < 0
    THEN ProxyFailure("Exception")
  ELSE IF GetByte(data, 10) = 0 THEN [success |-> TRUE, error_message |-> ""]
  ELSE ProxyFailure("error_msg")

\* the calls of the two proxies: Add(4, 2) and Divide(1, 0) of the calculator,
\* GetTimestamp of the time client, each with a response buffer of
\* MAX_PACKET_SIZE bytes
ProxyInputs ==
  { [routine_id |-> CalculatorRequestId, req |-> [data |-> p, len |-> Len(p)],
     bufsize |-> MAX_PACKET_SIZE] :
      p \in { <<r[1]>> \o PutDouble(r[2]) \o PutDouble(r[3]) :
                r \in { <<1, 4, 2>>, <<4, 1, 0>> } } }
  \cup { [routine_id |-> TimeRequestId, req |-> [data |-> <<1>>, len |-> 1],
          bufsize |-> MAX_PACKET_SIZE] }

\* a proxy operation begins: the request payload is built and ExecuteRPC called
ProxyCall == ExecuteRPCWith(1, ProxyInputs)

\* the response_id the proxy that called routine_id expects
ExpectedResponseId(routine_id) ==
  IF routine_id = CalculatorRequestId THEN CalculatorResponseId ELSE TimeResponseId

\* the Result of the proxy operation whose ExecuteRPC has just returned
ProxyResult ==
  IF lastRet.call.routine_id = CalculatorRequestId
    THEN Calculator_ExecuteOperation(lastRet.ret, Bytes(lastRet.call.received))
    ELSE TimeClient_GetCurrentTime(lastRet.ret, Bytes(lastRet.call.received))

\* the frames the registered handler of routine id rid builds for a payload
HandlerFrames(rid, input) ==
  IF rid = CalculatorRequestId
    THEN { CalculatorResponse(input).output }
    ELSE { r.output : r \in TimeResponses(input) }

\* the payloads the request with this tag can have carried: that of the call
\* still waiting for the answer, or one of the proxies' requests to rid
SentPayloads(q) ==
  IF \E t \in Threads : call[t].tag = q.tag
    THEN { call[t].req.data : t \in { u \in Threads : call[u].tag = q.tag } }
    ELSE { c.req.data : c \in { d \in ProxyInputs : d.routine_id = q.rid } }

\* how many bytes of a response are lost when the connection goes down while
\* the server writes it: none, the END byte, or the last six bytes
Cuts == {0, 1, 6}

\* the server of this repository answers the oldest request it has read with
\* the frame of the handler, whole, or in part before the connection goes down
ServerRespond ==
  /\ wire.up
  /\ wire.pending # <<>>
  /\ LET q == Head(wire.pending) IN
     \E input \in SentPayloads(q) : \E frame \in HandlerFrames(q.rid, input) :
       \E cut \in Cuts :
         wire' = [up |-> cut = 0,
                  rx |-> wire.rx \o Tagged(SubSeq(frame, 1, Len(frame) - cut), q.tag),
                  pending |-> Tail(wire.pending)]
  /\ access' = NoAccess
  /\ lastRet' = NoRet
  /\ UNCHANGED <<socket_fd_, connected_, last_error_, mutex_, buffer_, cpc, call, nextTag>>
  /\ UNCHANGED <<serverVars, svcVars, regVars, bufVars, poolVars>>

\* one thread using the proxies against the server, or against a peer that
\* answers with frames of its own
ProxyNext ==
  \/ ProxyCall
  \/ InCall(1)
  \/ ServerRespond
  \/ PeerRespond
  \/ PeerClose

ProxySpec == ClientInit /\ [][ProxyNext]_vars

\* epoll_wait returns with the reaper timer among the ready descriptors
ReaperWakeup == EpollWait /\ \E i \in DOMAIN events' : events'[i].fd = timer_fd_

\* the timer armed by CreateInactivityTimer expires every 60 seconds and stays
\* readable until HandleInactivityTimer reads it, so an event loop that keeps
\* calling epoll_wait is told about it again and again
ReaperSpec == Spec /\ WF_vars(ServerThreadStep) /\ SF_vars(ReaperWakeup)

\* ------------------------------------------------ ServiceManager claims
\* thread t has returned from a RegisterService call on a service
Registered(t) ==
  /\ rcall[t].op = "RegisterService" /\ rcall[t].service # NullService
  /\ rret[t].ret # "none"

\* C21: RegisterService returns false and leaves the registry as it is for a
\* null service and for a service whose request routine id is already bound
\* (the first binding stays); otherwise it returns true and adds exactly that
\* one binding; every call ends with one of these two results.
C21_RegisterResult ==
  [][/\ \A t \in Threads :
          (rcalls' # rcalls /\ rpc' = rpc /\ rcall'[t].op = "RegisterService"
             /\ rcall'[t].service = NullService) =>
            (rret'[t].ret = "false" /\ registry' = registry)
     /\ \A t \in Threads :
          (rcall[t].op = "RegisterService" /\ rpc[t] \in {"reg_find", "reg_insert"}
             /\ rpc'[t] = "idle") =>
            LET id == rcall[t].routine_id IN
            IF id \in DOMAIN registry
              THEN rret'[t].ret = "false" /\ registry' = registry
              ELSE /\ rret'[t].ret = "true"
                   /\ DOMAIN registry' = DOMAIN registry \cup {id}
                   /\ registry'[id] = rcall[t].service.name
                   /\ \A i \in DOMAIN registry : registry'[i] = registry[i]]_vars

C21_Witness ==
  \E t \in Threads : \E u \in Threads \ {t} :
    /\ Registered(t) /\ rcall[t].service.name = "MockService" /\ rret[t].ret = "false"
    /\ Registered(u) /\ rcall[u].service.name = "CalculatorService" /\ rret[u].ret = "true"
    /\ registry = (CalculatorRequestId :> "CalculatorService")

\* C22: concurrent registrations are atomic: when each thread has made at most
\* one call and none of them is Clear, a call that returned true has its service bound to its routine id,
\* a call that returned false found the id bound, no two calls for one id both
\* returned true, and the count is at least the number of ids registered; so N
\* concurrent calls with distinct ids on an empty registry all return true and
\* leave N retrievable bindings.
C22_AtomicRegistration ==
  (/\ \A c \in Threads : rcall[c].op # "Clear"
   /\ rcalls = Cardinality({ c \in Threads : rcall[c].op # "none" })) =>
    /\ \A t \in Threads :
         Registered(t) =>
           /\ rret[t].ret = "true" => 
                /\ rcall[t].routine_id \in DOMAIN registry
                /\ registry[rcall[t].routine_id] = rcall[t].service.name
           /\ rret[t].ret = "false" => rcall[t].routine_id \in DOMAIN registry
           /\ rret[t].ret \in {"true", "false"}
    /\ \A t \in Threads : \A u \in Threads \ {t} :
         (Registered(t) /\ Registered(u) /\ rcall[t].routine_id = rcall[u].routine_id) =>
           ~(rret[t].ret = "true" /\ rret[u].ret = "true")
    /\ Cardinality(DOMAIN registry) >=
         Cardinality({ rcall[t].routine_id :
                         t \in { x \in Threads : Registered(x) /\ rret[x].ret = "true" } })

C22_Witness ==
  /\ \E t \in Threads : \E u \in Threads \ {t} :
       /\ Registered(t) /\ Registered(u)
       /\ rret[t].ret = "true" /\ rret[u].ret = "true"
       /\ rcall[t].routine_id # rcall[u].routine_id
  /\ Cardinality(DOMAIN registry) = 2

\* C23: the registry lock is not held while a handler's Execute runs: it is
\* never owned by a thread inside Execute, and with a handler that never
\* returns every RegisterService, IsRoutinePresent, GetServiceCount and Clear
\* of another thread still completes and every other ExecuteService still
\* reaches its handler or returns.
C23_LockFreeDuringExecute ==
  /\ [](\A t \in Threads : rpc[t] = "exec_run" => reg_mutex # t)
  /\ \A t \in Threads :
       (rpc[t] \in {"reg_lock", "query_lock"}) ~> (rpc[t] = "idle")
  /\ \A t \in Threads :
       (rpc[t] = "exec_lock") ~> (rpc[t] \in {"exec_run", "idle"})

C23_Witness ==
  \E t \in Threads : \E u \in Threads \ {t} :
    /\ rpc[t] = "exec_run"
    /\ reg_mutex = u /\ rpc[u] = "reg_find"

\* C24: concurrent ExecuteService calls for a registered routine, each with its
\* own input and an output buffer with room for the response, each return a
\* nonzero count and leave in their own output buffer the response computed
\* from their own input.
C24_IndependentResponses ==
  \A t \in Threads :
    (rcall[t].op = "ExecuteService" /\ rret[t].ret # "none"
       /\ rcall[t].service # NullService /\ rcall[t].output_len = 256) =>
      /\ rret[t].n > 0
      /\ rret[t].n = Len(rret[t].output)
      /\ \E r \in ServiceResponses(rcall[t].service.name, rcall[t].input) :
           rret[t].output = r.output

C24_Witness ==
  \E t \in Threads : \E u \in Threads \ {t} :
    /\ rcall[t].op = "ExecuteService" /\ rcall[u].op = "ExecuteService"
    /\ rcall[t].routine_id = CalculatorRequestId
    /\ rcall[u].routine_id = CalculatorRequestId
    /\ rcall[t].input # rcall[u].input
    /\ rret[t].n > 0 /\ rret[u].n > 0
    /\ rret[t].output # rret[u].output

\* C40: a dispatch that finds its routine under the lock goes on to Execute
\* with the handler it found, keeps that handler through every step of other
\* threads (a Clear included) and returns what that handler produced from its
\* own input; a dispatch that does not find its routine returns 0 without
\* reaching a handler. Clear leaves the registry empty, it stays empty until a
\* RegisterService inserts, and on the empty registry GetServiceCount returns 0
\* and IsRoutinePresent false.
C40_ClearVersusExecute ==
  [][/\ \A t \in Threads :
          /\ (rpc[t] = "exec_find" /\ rpc'[t] # "exec_find") =>
               IF rcall[t].routine_id \in DOMAIN registry
                 THEN /\ rpc'[t] = "exec_run"
                      /\ rcall'[t].service.name = registry[rcall[t].routine_id]
                 ELSE /\ rpc'[t] = "idle"
                      /\ rret'[t] = [ret |-> "size_t", n |-> 0, output |-> <<>>]
          /\ (rpc[t] = "exec_run" /\ rpc'[t] = "exec_run") =>
               rcall'[t] = rcall[t]
          /\ (rpc[t] = "exec_run" /\ rpc'[t] # "exec_run") =>
               /\ rpc'[t] = "idle"
               /\ \E r \in Execute(rcall[t].service, rcall[t].input, rcall[t].output_len) :
                    /\ rret'[t].n = (IF r.n < 0 THEN 0 ELSE r.n)
                    /\ rret'[t].output = r.output
          /\ (rpc[t] # "exec_run" /\ rpc'[t] = "exec_run") => rpc[t] = "exec_find"
          /\ (rcall[t].op = "Clear" /\ rpc[t] = "query_body" /\ rpc'[t] = "idle") =>
               registry' = << >>
          /\ (registry = << >> /\ rpc[t] = "query_body" /\ rpc'[t] = "idle"
                /\ rcall[t].op = "GetServiceCount") => rret'[t].n = 0
          /\ (registry = << >> /\ rpc[t] = "query_body" /\ rpc'[t] = "idle"
                /\ rcall[t].op = "IsRoutinePresent") => rret'[t].ret = "false"
     /\ (registry = << >> /\ registry' # << >>) =>
          \E u \in Threads : rpc[u] = "reg_insert" /\ rpc'[u] = "idle"]_vars

C40_Witness ==
  \E t \in Threads : \E u \in Threads \ {t} :
    /\ rpc[t] = "exec_run" /\ rcall[t].service.name = "CalculatorService"
    /\ rcall[u].op = "Clear" /\ rret[u].ret = "void"
    /\ registry = << >>

\* ------------------------------------------------------ server claims
\* the frame of the last request is well formed and names a registered routine
WellFormedRegistered(d) ==
  /\ Len(d) >= GetMinFrameSize
  /\ GetByte(d, 0) = START_BYTE
  /\ GetInt(d, 1) = Len(d)
  /\ GetInt(d, 5) \in services_
  /\ GetByte(d, 9) = VERSION
  /\ GetByte(d, Len(d) - 1) = END_BYTE

\* C2: a frame reaches the registry only if its TOTAL_LENGTH field equals its
\* number of bytes; a frame whose declared length differs is dropped without
\* a handler invocation and without a response.
C2_LengthChecked ==
  (lastReq.calls # <<>> \/ lastReq.sends # <<>>)
    => GetInt(lastReq.data, 1) = Len(lastReq.data)

Rank(st) ==
  CASE st = "CreateSocket" -> 0
    [] st = "ListenSocket" -> 1
    [] st = "WaitAndHandleEvents" -> 2
    [] st = "Cleanup" -> 3
    [] st = "Exit" -> 4

\* C3: within one Start() the thread's state never moves to an earlier state,
\* CreateSocket is entered at most once, and after a failed socket, bind,
\* listen, epoll or timer setup the event loop is never entered.
C3_LinearStates ==
  /\ [][(thr = "live" /\ thr' # "none") => Rank(state') >= Rank(state)]_vars
  /\ [](createCalls <= 1)
  /\ [](setupFailed => state \notin {"WaitAndHandleEvents"} /\ spc # "events")

C3_Witness == setupFailed /\ createCalls = 1 /\ state = "Cleanup" /\ server_fd_ >= 0

C5_StopReturns ==
  (ctl = "joining") ~> (ctl = "idle" /\ thr = "none" /\ spc = "exited" /\ openFds = {})

C5_Witness ==
  ctl = "joining" /\ thr = "live" /\ spc = "events" /\ DOMAIN clients_ # {}

\* C9: a well-formed frame of L bytes for a registered routine is dispatched
\* exactly once, with the routine id of the frame and the L-11 bytes between
\* VERSION and END, and the handler's response is handed to exactly one send
\* on the connection the frame came from.
C9_DispatchOnce ==
  (lastReq.fd >= 0 /\ WellFormedRegistered(lastReq.data)) =>
    LET d == lastReq.data
    IN /\ Len(lastReq.calls) = 1
       /\ lastReq.calls[1].ran
       /\ lastReq.calls[1].routine_id = GetInt(d, 5)
       /\ Len(lastReq.calls[1].input) = Len(d) - GetMinFrameSize
       /\ \A i \in 1 .. Len(d) - GetMinFrameSize :
            lastReq.calls[1].input[i] = d[i + 10]
       /\ IF lastReq.calls[1].n > 0
          THEN /\ Len(lastReq.sends) = 1
               /\ lastReq.sends[1].fd = lastReq.fd
               /\ lastReq.sends[1].len = lastReq.calls[1].n
          ELSE lastReq.sends = <<>>

C9_Witness ==
  /\ lastReq.fd >= 0 /\ WellFormedRegistered(lastReq.data)
  /\ Len(lastReq.data) > GetMinFrameSize
  /\ lastReq.sends # <<>>

\* C10: when dispatch returns n > 0 the server writes all n bytes to the
\* connection the request came from, to no other, in at most one send attempt
\* (a failed write is not retried).
C10_FullResponse ==
  \A i \in DOMAIN lastReq.calls :
    lastReq.calls[i].n > 0 =>
      /\ Len(lastReq.sends) = 1
      /\ lastReq.sends[1].fd = lastReq.fd
      /\ lastReq.sends[1].sent \in {-1, lastReq.calls[i].n}

\* the bytes of a read that frame parsing rejects: too short, wrong START or
\* wrong VERSION
Rejected(d) ==
  \/ Len(d) < GetMinFrameSize
  \/ GetByte(d, 0) # START_BYTE
  \/ GetByte(d, 9) # VERSION

\* C11: for inbound data shorter than 11 bytes, not starting with START or with
\* a VERSION other than 1, no handler is invoked, nothing is written to the
\* connection and the connection stays open in the connection table.
C11_RejectedDropped ==
  (lastReq.rc = "data" /\ Rejected(lastReq.data)) =>
    /\ lastReq.calls = <<>>
    /\ lastReq.sends = <<>>
    /\ lastReq.fd \in DOMAIN clients_
    /\ lastReq.fd \in openFds /\ lastReq.fd \in epollReg

C11_Witness ==
  /\ lastReq.rc = "data" /\ Len(lastReq.data) >= GetMinFrameSize
  /\ GetByte(lastReq.data, 0) = START_BYTE
  /\ GetByte(lastReq.data, 9) # VERSION
  /\ GetInt(lastReq.data, 5) \in services_
  /\ lastReq.fd \in DOMAIN clients_

\* C12: ExecuteService returns 0 without running a handler for an unregistered
\* routine id, 0 when the handler throws, and the handler's return value
\* otherwise; when it returns 0 nothing is written to the connection and the
\* connection stays open.
C12_RegistryResult ==
  \A i \in DOMAIN lastReq.calls :
    LET c == lastReq.calls[i] IN
    /\ c.routine_id \notin services_ => (~c.ran /\ c.n = 0)
    /\ c.routine_id \in services_ => (c.ran /\ c.n = IF c.h < 0 THEN 0 ELSE c.h)
    /\ c.n = 0 => /\ lastReq.sends = <<>>
                  /\ lastReq.fd \in DOMAIN clients_
                  /\ lastReq.fd \in openFds

C12_Witness ==
  /\ lastReq.calls # <<>>
  /\ lastReq.calls[1].ran /\ lastReq.calls[1].h < 0
  /\ lastReq.sends = <<>>

\* a step that handles a readability event of a connection of the table
ClientReadStep ==
  /\ AtEvent /\ IsClientEvent(Head(events)) /\ Head(events).ev = "IN"
  /\ Head(events).fd \in DOMAIN clients_
  /\ events' # events

\* C13: on a readability wakeup of a client connection, a read of 0 bytes or a
\* read error other than would-block removes the connection and closes its
\* descriptor; would-block leaves the connection and its last-activity time as
\* they were; a read of one or more bytes sets last-activity to the current
\* time, hands the bytes to frame parsing and keeps the connection open.
C13_ReadOutcomes ==
  [][ClientReadStep =>
       LET fd == Head(events).fd IN
       /\ lastReq'.fd = fd
       /\ lastReq'.rc \in {"eof", "error", "eagain", "data"}
       /\ lastReq'.rc \in {"eof", "error"} =>
            (fd \notin DOMAIN clients_' /\ fd \notin openFds' /\ fd \notin epollReg')
       /\ lastReq'.rc = "eagain" =>
            (clients_' = clients_ /\ openFds' = openFds /\ epollReg' = epollReg)
       /\ lastReq'.rc = "data" =>
            /\ lastReq'.data # <<>>
            /\ DOMAIN clients_' = DOMAIN clients_
            /\ clients_'[fd].last_activity = now
            /\ openFds' = openFds /\ epollReg' = epollReg]_vars

C13_Witness ==
  /\ lastReq.rc = "data" /\ now > 0
  /\ clients_[lastReq.fd].last_activity = now
  /\ \E f \in DOMAIN clients_ : clients_[f].last_activity < now

ReaperStep == AtEvent /\ Head(events).fd = timer_fd_ /\ events' # events

\* C15: handling a reaper wakeup at time t closes and removes exactly the
\* connections with t - last_activity > 300 and leaves every connection with
\* t - last_activity <= 300 open and unchanged.
C15_ReapsExactlyIdle ==
  [][ReaperStep =>
       \A f \in DOMAIN clients_ :
         IF now - clients_[f].last_activity > 300
           THEN f \notin DOMAIN clients_' /\ f \notin openFds' /\ f \notin epollReg'
           ELSE /\ f \in DOMAIN clients_' /\ clients_'[f] = clients_[f]
                /\ f \in openFds' /\ f \in epollReg']_vars

\* a reaper wakeup closed a connection and left one that is exactly at the
\* threshold
C15_Witness ==
  /\ lastReq.rc = "timer" /\ lastReq.closed # {}
  /\ \E f \in DOMAIN clients_ : now - clients_[f].last_activity = 300

\* C16: a connection on which no read has succeeded for more than 300 seconds
\* does not stay open for ever: again and again the connection table holds no
\* connection beyond the threshold, because every reaper wakeup handled after
\* the threshold is exceeded closes the connection, whether or not the client
\* ever sent a request.
C16_IdleEventuallyClosed ==
  /\ []<>(\A f \in DOMAIN clients_ : now - clients_[f].last_activity <= 300)
  /\ [][ReaperStep =>
         \A f \in DOMAIN clients_ :
           now - clients_[f].last_activity > 300 => f \notin DOMAIN clients_']_vars

C16_Witness ==
  /\ thr = "live" /\ state = "WaitAndHandleEvents" /\ running_
  /\ lastReq.rc = "timer" /\ lastReq.closed # {}
  /\ clients_ = << >>

\* C25: Stop() on a server that is not running (stopped before, or never
\* started) changes no state, closes nothing and joins nothing, and the server
\* stays stopped; every Stop() that joined the server thread leaves the server
\* stopped with no thread to join.
C25_StopIdempotent ==
  [][/\ (~running_ /\ (ctl' = "returning" \/ ctl = "returning") /\ ctl' # ctl) =>
          /\ ~running_' /\ thr' = thr /\ state' = state /\ spc' = spc
          /\ openFds' = openFds /\ epollReg' = epollReg /\ sockFile' = sockFile
          /\ <<server_fd_, epoll_fd_, timer_fd_, clients_>>' =
               <<server_fd_, epoll_fd_, timer_fd_, clients_>>
          /\ ctl' \in {"returning", "idle"}
     /\ (ctl = "joining" /\ ctl' = "idle") => (~running_' /\ thr' = "none")]_vars

\* a second Stop() in a row has returned: the server has run, its thread has
\* been joined, and the controlling thread is in the early return
C25_Witness ==
  /\ ctl = "returning" /\ ~running_
  /\ thr = "none" /\ spc = "exited" /\ createCalls > 0

\* C28: the connection table is touched by the loop thread only: while the
\* loop thread is running, the thread that calls Start, Stop, IsRunning and
\* GetClientCount is never at a read or write of clients_.
C28_TableLoopPrivate ==
  ctl = "client_count" => thr # "live"

\* C29: once Start() has returned true, IsRunning() is true only while the
\* server thread is alive and has not reached Exit; after a failure to create,
\* bind or listen on the socket or to set up epoll it is false.
C29_RunningWhileServing ==
  running_ => (thr = "live" /\ state # "Exit")

\* the frames of ClientFrames that the bytes of one read consist of, in order;
\* none if the bytes are not whole frames
FramesIn(data) ==
  IF data \in ClientFrames THEN <<data>>
  ELSE IF \E f \in ClientFrames, g \in ClientFrames : data = f \o g
    THEN LET p == CHOOSE q \in ClientFrames \X ClientFrames : data = q[1] \o q[2]
         IN  <<p[1], p[2]>>
  ELSE <<>>

\* C37: the bytes of one read are dispatched frame by frame: each whole frame
\* among them once, with its own routine id and payload, and bytes that are
\* not yet a whole frame are not dispatched as one.
C37_EachFrameDispatched ==
  lastReq.rc = "data" =>
    LET frames == FramesIn(lastReq.data) IN
    /\ Len(lastReq.calls) = Len(frames)
    /\ \A i \in DOMAIN frames :
         /\ lastReq.calls[i].routine_id = GetInt(frames[i], 5)
         /\ lastReq.calls[i].input = SubSeq(frames[i], 11, Len(frames[i]) - 1)

\* C38: every client event handled in a batch belongs to the connection that
\* holds its descriptor: a connection that enters the table during a batch
\* never gets a descriptor number for which an event of that batch is still
\* to be handled.
C38_NoStaleEvent ==
  [][\A f \in DOMAIN clients_' \ DOMAIN clients_ :
       \A i \in DOMAIN events' : events'[i].fd # f]_vars

\* the descriptors HandleCleanup would close: those of the table and the three
\* members that are not -1
CleanupCloses ==
  DOMAIN clients_ \cup ({timer_fd_, epoll_fd_, server_fd_} \ {-1})

\* C39: every descriptor of the connection table is open, is the key of its
\* own entry and is registered with epoll; every descriptor the server would
\* close is open and is held once (so that no close() names a descriptor that
\* is closed already), and every open descriptor is one of them; after the
\* Cleanup state the HandleCleanup at thread exit finds nothing to close, and
\* a close request for a descriptor that is not in the table closes nothing.
C39_ClosedOnce ==
  /\ [](/\ \A f \in DOMAIN clients_ :
              f \in openFds /\ clients_[f].fd = f /\ f \in epollReg
        /\ CleanupCloses = openFds
        /\ Cardinality(openFds) =
             Cardinality(DOMAIN clients_)
               + Cardinality({ m \in {"t", "e", "s"} :
                                 (CASE m = "t" -> timer_fd_ [] m = "e" -> epoll_fd_
                                    [] OTHER -> server_fd_) # -1 })
        /\ (spc \in {"final", "exited"} /\ state = "Exit") => CleanupCloses = {})
  /\ [][(AtEvent /\ IsClientEvent(Head(events)) /\ Head(events).fd \notin DOMAIN clients_
           /\ events' # events) =>
          (openFds' = openFds /\ clients_' = clients_ /\ epollReg' = epollReg)]_vars

C39_Witness ==
  /\ spc = "exited" /\ state = "Exit" /\ ~setupFailed /\ createCalls = 1
  /\ openFds = {}

\* ----------------------------------------------------- channel claims
\* C1: when the first send of an ExecuteRPC call fails, the call goes on to one
\* reconnect and one resend and ends with a boolean result after at most two
\* send attempts: it is never left blocked and never ends by an exception.
C1_RetryOnce ==
  /\ \A t \in Threads : cpc[t] # "deadlocked"
  /\ (lastRet.call.op = "ExecuteRPC" /\ lastRet.call.sendFailed)
       => (lastRet.ret \in {"true", "false"} /\ lastRet.call.sends <= 2)

\* C6: ExecuteRPC returns success only with at least the minimum frame size
\* received and then either the declared TOTAL_LENGTH bytes or a full response
\* buffer; a receive that fails before that returns failure with the channel
\* marked disconnected.
C6_SuccessComplete ==
  lastRet.call.op = "ExecuteRPC" =>
    LET r == lastRet.call.received IN
    /\ lastRet.ret = "true" =>
         /\ Len(r) >= GetMinFrameSize
         /\ Len(r) >= GetInt(Bytes(r), 1) \/ Len(r) = lastRet.call.bufsize
    /\ (lastRet.ret = "false" /\ lastRet.call.sends > 0 /\ ~lastRet.call.sendFailed)
         => ~connected_

\* the part of ExecuteRPC from the built frame to the received response
InExchange == {"rpc_send", "rpc_retry", "rpc_recv_head", "rpc_recv_body", "deadlocked"}

\* C7: at most one ExecuteRPC call at a time is between building its frame and
\* the end of its receive, and the response a successful call returns is made
\* of the bytes the peer produced for that call's request.
C7_OwnResponse ==
  /\ Cardinality({t \in Threads : cpc[t] \in InExchange}) <= 1
  /\ (lastRet.call.op = "ExecuteRPC" /\ lastRet.ret = "true")
       => \A i \in DOMAIN lastRet.call.received :
            lastRet.call.received[i].tag = lastRet.call.tag

\* C8: every step that reads or writes the socket descriptor, the scratch
\* buffer or the last-error string runs with the channel's lock held.
C8_LockHeld ==
  access.fields # {} => access.locked

\* C17: an ExecuteRPC that finds the channel disconnected (after a failed call,
\* after Disconnect(), after a failed constructor) connects by itself and sends
\* its request on the new connection, or returns failure when the connection
\* cannot be made; the caller does not have to call Connect().
C17_ReconnectsAndSends ==
  \A t \in Threads :
    (cpc[t] = "ensure_connect") ~> (cpc[t] = "idle" \/ call[t].sends > 0)

\* the step in which a Connect() of thread t returns false: to the caller of
\* Connect(), or to EnsureConnected()
ConnectFails(t) ==
  \/ cpc[t] \in {"ensure_connect", "connecting"} /\ cpc'[t] = "ensure_failed"
  \/ cpc[t] \in {"idle", "connecting"} /\ call[t].op \in {"none", "Connect"}
       /\ lastRet'.call.op = "Connect" /\ lastRet'.ret = "false"

\* C18: a connection attempt that fails, the constructor's included, leaves the
\* channel with IsConnected() false, no open socket and a non-empty last-error
\* string; it returns false instead of throwing.
C18_FailedConnect ==
  /\ connected_ \/ (socket_fd_ = -1 /\ last_error_ # "")
  /\ [][\A t \in Threads :
          ConnectFails(t) =>
            (~connected_' /\ socket_fd_' = -1 /\ wire' = NoWire /\ last_error_' # "")]_vars

C18_Witness ==
  /\ lastRet.call.op = "Connect" /\ lastRet.ret = "false"
  /\ last_error_ \in ConnectErrors
  /\ ~connected_ /\ socket_fd_ = -1

\* C19: ExecuteRPC rejects a request, with nothing sent and the connection left
\* as it was, exactly when its frame of 11 + request_len bytes would exceed
\* 8192 bytes; every request that fits is encoded in full.
C19_CapacityCheck ==
  [][\A t \in Threads :
       (cpc[t] = "rpc_lock" /\ cpc'[t] # "rpc_lock") =>
         LET c == call[t] IN
         IF 11 + c.req.len > 8192
           THEN /\ cpc'[t] = "idle"
                /\ lastRet'.ret = "false" /\ lastRet'.call.sends = 0
                /\ socket_fd_' = socket_fd_ /\ connected_' = connected_ /\ wire' = wire
           ELSE /\ cpc'[t] = "rpc_send"
                /\ Len(buffer_') = 11 + c.req.len
                /\ GetInt(buffer_', 1) = 11 + c.req.len
                /\ SubSeq(buffer_', 11, 10 + c.req.len) = c.req.data]_vars

C19_Witness ==
  /\ lastRet.call.op = "ExecuteRPC" /\ lastRet.ret = "false"
  /\ lastRet.call.req.len = 8182 /\ lastRet.call.sends = 0
  /\ connected_ /\ wire.up
  /\ last_error_ = "Request payload too large"

\* the envelope of a frame of n bytes, read byte by byte
C20_Framed(frame, n, routine_id) ==
  /\ n = Len(frame) /\ n >= 11
  /\ frame[1] = 126 /\ frame[n] = 127 /\ frame[10] = 1
  /\ frame[6] * 16777216 + frame[7] * 65536 + frame[8] * 256 + frame[9] = routine_id
  /\ frame[2] * 16777216 + frame[3] * 65536 + frame[4] * 256 + frame[5] = n

\* C20: every frame produced by the Channel encoder and by the calculator and
\* time handlers, on success and on error, starts with 0x7E, ends with 0x7F,
\* has 0x01 at offset 9, its routine id big-endian at offsets 5-8, and at
\* offsets 1-4 the big-endian count of the bytes sent or returned; apart from
\* offsets 1-4 the frame is the bytes written before the length was patched.
C20_FramesWellFormed ==
  /\ \A t \in Threads :
       cpc[t] = "rpc_send" =>
         /\ C20_Framed(buffer_, 11 + call[t].req.len, call[t].routine_id)
         /\ SubSeq(buffer_, 11, Len(buffer_) - 1) = call[t].req.data
  /\ executed.service # 0 =>
       /\ C20_Framed(output, executed.n, executed.service)
       /\ SubSeq(output, 11, Len(output) - 1) \in
            IF executed.service = 4097
              THEN { <<st>> \o PutDouble(x) \o PutString(e) :
                       st \in 0 .. 3, x \in DOMAIN DoubleImage,
                       e \in { <<>>, DivisionByZeroText, InvalidOperationText,
                               ExceptionPrefix \o LengthZeroWhat,
                               ExceptionPrefix \o UnderflowWhat } }
              ELSE { TimeBody(r) : r \in GetCurrentTimestamp }
                   \cup { TimeBody([status |-> st, timestamp |-> <<>>,
                                    unix_timestamp |-> 0, error |-> e]) :
                            st \in 1 .. 2,
                            e \in { InvalidOperationText,
                                    ExceptionPrefix \o LengthZeroWhat } }

C20_Witness ==
  /\ \E t \in Threads : cpc[t] = "rpc_send" /\ call[t].req.len = 8181
  /\ executed.service = 4097 /\ Len(executed.input) = 0
  /\ output[11] = 3 /\ executed.n = 11 + 1 + 8 + 4 + 11 + 30

\* C26: Disconnect() leaves the channel with IsConnected() false and no open
\* socket whatever was done before; on a channel without a socket (never
\* connected, or disconnected before) it changes nothing and hands no
\* descriptor to close().
C26_DisconnectIdempotent ==
  [][(lastRet'.call.op = "Disconnect" /\ lastRet' # lastRet) =>
       /\ ~connected_' /\ socket_fd_' = -1 /\ ~wire'.up
       /\ IF socket_fd_ >= 0
            THEN lastRet'.closed = socket_fd_
            ELSE /\ lastRet'.closed = -1
                 /\ <<socket_fd_, connected_, wire, last_error_, buffer_>>' =
                      <<socket_fd_, connected_, wire, last_error_, buffer_>>]_vars

\* a Disconnect() that found no socket has returned on a channel that has
\* made a call before
C26_Witness ==
  /\ lastRet.call.op = "Disconnect" /\ lastRet.closed = -1
  /\ ~connected_ /\ socket_fd_ = -1 /\ nextTag > 1

\* C27: Connect() on a connected channel returns true and changes nothing: the
\* socket and its connection stay as they are, no socket is created, and the
\* last error is unchanged.
C27_ConnectIdempotent ==
  [][\A t \in Threads :
       (/\ connected_ /\ socket_fd_ >= 0 /\ cpc[t] = "idle"
        /\ \/ lastRet'.call.op = "Connect" /\ lastRet' # lastRet
           \/ cpc'[t] = "connecting") =>
         /\ lastRet'.ret = "true"
         /\ cpc' = cpc
         /\ <<socket_fd_, connected_, wire, last_error_, buffer_, mutex_>>' =
              <<socket_fd_, connected_, wire, last_error_, buffer_, mutex_>>]_vars

\* Connect() has returned true on a channel that is connected and has
\* exchanged a request on that connection
C27_Witness ==
  /\ lastRet.call.op = "Connect" /\ lastRet.ret = "true"
  /\ connected_ /\ socket_fd_ >= 0 /\ wire.up /\ nextTag > 1

\* C30: a Calculator or TimeClient operation that has returned reports success
\* only if ExecuteRPC returned true, the response begins with START, carries
\* the expected response routine id and has status 0; and it reports failure
\* whenever ExecuteRPC failed, the response has fewer bytes than its
\* TOTAL_LENGTH declares, or the status is not 0
C30_StructuredResult ==
  (lastRet.call.op = "ExecuteRPC" /\ lastRet.ret # "none") =>
    LET data == Bytes(lastRet.call.received)
        headed == Len(data) >= GetMinFrameSize
    IN  /\ ProxyResult.success =>
              /\ lastRet.ret = "true"
              /\ headed
              /\ GetByte(data, 0) = START_BYTE
              /\ GetInt(data, 5) = ExpectedResponseId(lastRet.call.routine_id)
              /\ GetByte(data, 10) = 0
        /\ (\/ lastRet.ret # "true"
            \/ ~headed
            \/ Len(data) < GetInt(data, 1)
            \/ GetByte(data, 10) # 0) => ~ProxyResult.success

\* C36: no thread is ever at a lock() of the channel's mutex while it is the
\* owner of that mutex, so that no call is left waiting for itself.
C36_NoSelfRelock ==
  \A t \in Threads :
    /\ ~(cpc[t] = "rpc_retry" /\ mutex_ = t)
    /\ cpc[t] # "deadlocked"

\* ------------------------------------------------------------ ByteBuffer
\* An integer of w bytes is written here as its w digits in base 256, most
\* significant first; a float or double as the digits of its bit pattern; a
\* string as its bytes; a map as a function from keys to values.

Reverse(s) == [i \in 1 .. Len(s) |-> s[Len(s) + 1 - i]]

\* the bytes an integer object holding v has in memory on host h, and the
\* value of the object whose memory holds these bytes
MemoryImage(h, v) == IF h = "big" THEN v ELSE Reverse(v)

htonl_Identity(h, v) == v

\* htonl / htons: nothing on a big-endian host, a byte swap on a little-endian
htonl(h, v) == IF h = "big" THEN v ELSE Reverse(v)

\* ntohl / ntohs
ntohl(h, v) == IF h = "big" THEN v ELSE Reverse(v)

\* static_cast<uint32_t> of a length or count
UInt32(n) ==
  << (n \div 16777216) % 256, (n \div 65536) % 256, (n \div 256) % 256, n % 256 >>

\* a uint32_t as a size_t (64 bits, so position_ + size never wraps); values
\* from 2^24 on are far beyond every region here and are counted as 2^24
SizeOf(v) == IF v[1] # 0 THEN 16777216 ELSE (v[2] * 256 + v[3]) * 256 + v[4]

\* what a ByteBuffer call starts from, and what it leaves behind: the region,
\* the cursor, the exception thrown, the value returned and the end of the
\* highest byte it touched
Started(rgn, pos) ==
  [region |-> rgn, position |-> pos, error |-> "none", value |-> << >>, high |-> 0]

\* ByteBuffer::WriteBytes
WriteBytes(b, bytes) ==
  IF b.error # "none" THEN b
  ELSE IF ~CheckBoundary(b.position, Len(bytes), Capacity)
  THEN [b EXCEPT !.error = "overflow_error"]
  ELSE [b EXCEPT !.region = WriteAt(b.region, b.position, bytes),
                 !.position = b.position + Len(bytes),
                 !.high = b.position + Len(bytes)]

\* ByteBuffer::ReadBytes: the bytes read are appended to the value
ReadBytes(b, size) ==
  IF b.error # "none" THEN b
  ELSE IF ~CheckBoundary(b.position, size, Capacity)
  THEN [b EXCEPT !.error = "underflow_error"]
  ELSE [b EXCEPT !.value = b.value \o SubSeq(b.region, b.position + 1, b.position + size),
                 !.position = b.position + size,
                 !.high = b.position + size]

\* an exception thrown by the call itself, unless one is already on its way
Throw(b, what) == IF b.error # "none" THEN b ELSE [b EXCEPT !.error = what]

\* ByteBuffer::PutInt, and PutShort with htons on two bytes
ByteBuffer_PutInt(h, b, data) == WriteBytes(b, MemoryImage(h, htonl(h, data)))

\* ByteBuffer::PutLong: data >> 32 and data & 0xFFFFFFFF, one WriteBytes each
ByteBuffer_PutLong(h, b, data) ==
  LET high == htonl(h, SubSeq(data, 1, 4))
      low == htonl(h, SubSeq(data, 5, 8))
  IN  WriteBytes(WriteBytes(b, MemoryImage(h, high)), MemoryImage(h, low))

\* ByteBuffer::PutString
ByteBuffer_PutString(h, b, data) ==
  LET len == UInt32(Len(data))
      r == ByteBuffer_PutInt(h, b, len)
  IN  IF SizeOf(len) > 0 THEN WriteBytes(r, data) ELSE r

RECURSIVE PutEntries(_, _, _, _)
\* the loop of ByteBuffer::PutMap over the entries in the order the
\* unordered_map iterates them
PutEntries(h, b, data, order) ==
  IF order = << >> THEN b
  ELSE LET key == Head(order)
       IN  PutEntries(h, ByteBuffer_PutString(h, ByteBuffer_PutString(h, b, key), data[key]),
                      data, Tail(order))

\* ByteBuffer::PutMap
ByteBuffer_PutMap(h, b, data, order) ==
  PutEntries(h, ByteBuffer_PutInt(h, b, UInt32(Len(order))), data, order)

\* ByteBuffer::PutArray of the len bytes at data, or of a null pointer
ByteBuffer_PutArray(h, b, data, null) ==
  LET len == UInt32(Len(data))
      r == ByteBuffer_PutInt(h, b, len)
  IN  IF SizeOf(len) > 0
      THEN IF null THEN Throw(r, "invalid_argument") ELSE WriteBytes(r, data)
      ELSE r

\* the Put operations; PutByte, PutFloat and PutDouble copy the object as it
\* lies in memory
Put(h, b, in) ==
  CASE in.op = "PutByte" -> WriteBytes(b, in.data)
    [] in.op = "PutShort" -> ByteBuffer_PutInt(h, b, in.data)
    [] in.op = "PutInt" -> ByteBuffer_PutInt(h, b, in.data)
    [] in.op = "PutLong" -> ByteBuffer_PutLong(h, b, in.data)
    [] in.op = "PutFloat" -> WriteBytes(b, MemoryImage(h, in.data))
    [] in.op = "PutDouble" -> WriteBytes(b, MemoryImage(h, in.data))
    [] in.op = "PutString" -> ByteBuffer_PutString(h, b, in.data)
    [] in.op = "PutMap" -> ByteBuffer_PutMap(h, b, in.data, in.order)
    [] in.op = "PutArray" -> ByteBuffer_PutArray(h, b, in.data, in.null)

\* ByteBuffer::GetInt, and GetShort with ntohs on two bytes
ByteBuffer_GetInt(h, b, size) ==
  LET r == ReadBytes([b EXCEPT !.value = << >>], size)
  IN  IF r.error # "none" THEN r
      ELSE [r EXCEPT !.value = ntohl(h, MemoryImage(h, r.value))]

\* ByteBuffer::GetLong: two ReadBytes, then (high << 32) | low
ByteBuffer_GetLong(h, b) ==
  LET high == ByteBuffer_GetInt(h, b, 4)
      low == ByteBuffer_GetInt(h, high, 4)
  IN  IF low.error # "none" THEN low
      ELSE [low EXCEPT !.value = high.value \o low.value]

\* ByteBuffer::GetString
ByteBuffer_GetString(h, b) ==
  LET r == ByteBuffer_GetInt(h, b, 4)
      len == SizeOf(r.value)
  IN  IF r.error # "none" THEN r
      ELSE IF len = 0 THEN [r EXCEPT !.value = << >>]
      ELSE IF ~CheckBoundary(r.position, len, Capacity)
      THEN [r EXCEPT !.error = "underflow_error", !.value = << >>]
      ELSE [r EXCEPT !.value = SubSeq(r.region, r.position + 1, r.position + len),
                     !.position = r.position + len,
                     !.high = r.position + len]

RECURSIVE GetEntries(_, _, _, _)
\* the loop of ByteBuffer::GetMap: result[key] = value, count times
GetEntries(h, b, count, result) ==
  IF b.error # "none" THEN [b EXCEPT !.value = << >>]
  ELSE IF count = 0 THEN [b EXCEPT !.value = result]
  ELSE LET key == ByteBuffer_GetString(h, b)
           value == ByteBuffer_GetString(h, key)
       IN  GetEntries(h, value, count - 1,
                      [k \in DOMAIN result \cup {key.value} |->
                         IF k = key.value THEN value.value ELSE result[k]])

\* ByteBuffer::GetMap; reserve(count) of a count nothing has checked gets the
\* memory (reserved) or throws
ByteBuffer_GetMap(h, b, reserved) ==
  LET r == ByteBuffer_GetInt(h, b, 4)
      count == SizeOf(r.value)
  IN  IF r.error # "none" THEN r
      ELSE IF count >= 16777216 /\ ~reserved
      THEN [r EXCEPT !.error = "bad_alloc", !.value = << >>]
      ELSE GetEntries(h, r, count, << >>)

\* ByteBuffer::GetArray into max_len bytes at data, or at a null pointer
ByteBuffer_GetArray(h, b, max_len, null) ==
  LET r == ByteBuffer_GetInt(h, b, 4)
      len == SizeOf(r.value)
      body == [r EXCEPT !.value = << >>]
  IN  IF r.error # "none" THEN r
      ELSE IF null /\ len > 0 THEN Throw(body, "invalid_argument")
      ELSE IF len > max_len THEN Throw(body, "overflow_error")
      ELSE IF len > 0 THEN ReadBytes(body, len)
      ELSE body

\* ByteBuffer::GetByte, GetFloat, GetDouble: the bytes are copied into the
\* object as they lie in the region
GetObject(h, b, size) ==
  LET r == ReadBytes([b EXCEPT !.value = << >>], size)
  IN  IF r.error # "none" THEN r ELSE [r EXCEPT !.value = MemoryImage(h, r.value)]

\* the Get operations
Get(h, b, in) ==
  CASE in.op = "GetByte" -> GetObject(h, b, 1)
    [] in.op = "GetShort" -> ByteBuffer_GetInt(h, b, 2)
    [] in.op = "GetInt" -> ByteBuffer_GetInt(h, b, 4)
    [] in.op = "GetLong" -> ByteBuffer_GetLong(h, b)
    [] in.op = "GetFloat" -> GetObject(h, b, 4)
    [] in.op = "GetDouble" -> GetObject(h, b, 8)
    [] in.op = "GetString" -> ByteBuffer_GetString(h, b)
    [] in.op = "GetMap" -> ByteBuffer_GetMap(h, b, in.reserved)
    [] in.op = "GetArray" -> ByteBuffer_GetArray(h, b, in.max_len, in.null)

\* the values the callers put: the maximum of each width, 0, values whose
\* bytes all differ, the empty string and the empty map, a map with an empty
\* value in both orders of iteration, an array
TwoEntries == [k \in {<<97>>, <<98>>} |-> IF k = <<97>> THEN << >> ELSE <<99>>]

PutInputs ==
  {[op |-> "PutByte", data |-> <<255>>],
   [op |-> "PutShort", data |-> <<255, 255>>],
   [op |-> "PutShort", data |-> <<1, 2>>],
   [op |-> "PutInt", data |-> <<0, 0, 0, 0>>],
   [op |-> "PutInt", data |-> <<255, 255, 255, 255>>],
   [op |-> "PutInt", data |-> <<1, 2, 3, 4>>],
   [op |-> "PutLong", data |-> <<127, 255, 255, 255, 255, 255, 255, 255>>],
   [op |-> "PutLong", data |-> <<129, 2, 3, 4, 5, 6, 7, 8>>],
   [op |-> "PutFloat", data |-> <<63, 192, 0, 0>>],
   [op |-> "PutDouble", data |-> <<64, 9, 33, 251, 84, 68, 45, 24>>],
   [op |-> "PutString", data |-> << >>],
   [op |-> "PutString", data |-> <<97, 98>>],
   [op |-> "PutMap", data |-> << >>, order |-> << >>],
   [op |-> "PutMap", data |-> TwoEntries, order |-> << <<97>>, <<98>> >>],
   [op |-> "PutMap", data |-> TwoEntries, order |-> << <<98>>, <<97>> >>],
   [op |-> "PutArray", data |-> <<7, 8, 9>>, null |-> FALSE]}

\* the Get calls the callers make
GetInputs ==
  {[op |-> o] : o \in {"GetByte", "GetShort", "GetInt", "GetLong", "GetFloat",
                       "GetDouble", "GetString"}}
  \cup {[op |-> "GetMap", reserved |-> r] : r \in BOOLEAN}
  \cup {[op |-> "GetArray", max_len |-> 2, null |-> FALSE],
        [op |-> "GetArray", max_len |-> Capacity, null |-> FALSE]}

\* the Get that reads what a Put wrote
Matching(op) ==
  CASE op = "PutByte" -> "GetByte" [] op = "PutShort" -> "GetShort"
    [] op = "PutInt" -> "GetInt" [] op = "PutLong" -> "GetLong"
    [] op = "PutFloat" -> "GetFloat" [] op = "PutDouble" -> "GetDouble"
    [] op = "PutString" -> "GetString" [] op = "PutMap" -> "GetMap"
    [] op = "PutArray" -> "GetArray"

\* the positions the callers set: the start of the region, one past its end,
\* and where a value was put
Positions == {0, Capacity + 1} \cup {e.at : e \in layout}

\* a buffer on a zeroed region of Capacity bytes, as the tests construct it
BufferInit ==
  /\ host \in {"little", "big"}
  /\ region = [i \in 1 .. Capacity |-> 0]
  /\ position_ = 0
  /\ bufOp = [op |-> "none"]
  /\ layout = {}
  /\ ops = 0

\* what is left of the recorded values when the bytes from..to-1 are rewritten
Surviving(from, to) == {e \in layout : e.at + e.size <= from \/ e.at >= to}

\* a call of one Put operation
ByteBuffer_Put ==
  /\ ops < MaxOps
  /\ \E in \in PutInputs :
       /\ LET r == Put(host, Started(region, position_), in)
          IN  /\ region' = r.region
              /\ position_' = r.position
              /\ bufOp' = [op |-> in.op, in |-> in,
                           error |-> r.error, value |-> r.value, high |-> r.high]
              /\ layout' = Surviving(position_, r.position) \cup
                   (IF r.error = "none"
                    THEN {[op |-> Matching(in.op), data |-> in.data, at |-> position_,
                           size |-> r.position - position_]}
                    ELSE {})
  /\ ops' = ops + 1
  /\ UNCHANGED host
  /\ UNCHANGED <<serverVars, chanVars, svcVars, regVars, poolVars>>

\* a call of one Get operation
ByteBuffer_Get ==
  /\ ops < MaxOps
  /\ \E in \in GetInputs :
       LET r == Get(host, Started(region, position_), in)
       IN  /\ region' = r.region
           /\ position_' = r.position
           /\ bufOp' = [op |-> in.op, in |-> in,
                        error |-> r.error, value |-> r.value, high |-> r.high]
  /\ ops' = ops + 1
  /\ UNCHANGED <<host, layout>>
  /\ UNCHANGED <<serverVars, chanVars, svcVars, regVars, poolVars>>

\* ByteBuffer::Reset
Reset ==
  /\ ops < MaxOps
  /\ position_' = 0
  /\ bufOp' = [op |-> "Reset", error |-> "none"]
  /\ ops' = ops + 1
  /\ UNCHANGED <<host, region, layout>>
  /\ UNCHANGED <<serverVars, chanVars, svcVars, regVars, poolVars>>

\* ByteBuffer::SetPosition
SetPosition ==
  /\ ops < MaxOps
  /\ \E pos \in Positions :
       /\ position_' = IF pos > Capacity THEN position_ ELSE pos
       /\ bufOp' = [op |-> "SetPosition", pos |-> pos,
                    error |-> IF pos > Capacity THEN "out_of_range" ELSE "none"]
  /\ ops' = ops + 1
  /\ UNCHANGED <<host, region, layout>>
  /\ UNCHANGED <<serverVars, chanVars, svcVars, regVars, poolVars>>

BufferNext == ByteBuffer_Put \/ ByteBuffer_Get \/ Reset \/ SetPosition

\* a process that works on one ByteBuffer; its server, Channel, registry and
\* pool are not used
BufferProcess ==
  /\ ServerInit /\ ~sockFile /\ ChannelUnused /\ NothingExecuted /\ RegistryUnused
  /\ BufferInit /\ PoolUnused

BufferSpec == BufferProcess /\ [][BufferNext]_vars

\* ------------------------------------------------------------ ThreadPool
\* Every critical section of queue_mutex_ is one step: the lock is taken,
\* the guarded code runs and the lock is released (or, in condition_.wait,
\* released as the thread blocks) without another holder in between.

Workers == 1 .. NumWorkers

\* the threads that call Submit and Shutdown: the one that constructed the
\* pool and one it shares the pool with
Callers == {"owner", "user"}

\* ThreadPool::ThreadPool: the workers are started and the queue is empty
PoolInit ==
  /\ tasks_ = << >>
  /\ stop_ = FALSE
  /\ wpc = [w \in Workers |-> "loop"]
  /\ wtask = [w \in Workers |-> 0]       \* no task moved out of the queue yet
  /\ joined = {}
  /\ ppc = [c \in Callers |-> "idle"]
  /\ pret = [op |-> "none"]
  /\ submitted = << >>
  /\ ran = << >>

\* the predicate of condition_.wait
WaitPredicate == stop_ \/ tasks_ # << >>

ExitCondition_StopOnly == stop_

\* WorkerThread: "exit if stopping and no more tasks"
ExitCondition == stop_ /\ tasks_ = << >>

Popped_Kept(q) == q

\* tasks_.pop() after the front was moved out
Popped(q) == Tail(q)

\* the workers blocked in condition_.wait
Waiting == {w \in Workers : wpc[w] = "waiting"}

\* WorkerThread, the critical section of one turn of the loop: the worker
\* blocks in condition_.wait, returns, or takes the task at the front
WorkerTurn(w) ==
  /\ wpc[w] = "loop"
  /\ IF ~WaitPredicate
     THEN /\ wpc' = [wpc EXCEPT ![w] = "waiting"]
          /\ UNCHANGED <<tasks_, wtask>>
     ELSE IF ExitCondition
     THEN /\ wpc' = [wpc EXCEPT ![w] = "exited"]
          /\ UNCHANGED <<tasks_, wtask>>
     ELSE IF tasks_ # << >>
     THEN /\ wtask' = [wtask EXCEPT ![w] = Head(tasks_)]
          /\ tasks_' = Popped(tasks_)
          /\ wpc' = [wpc EXCEPT ![w] = "run"]
     ELSE UNCHANGED <<tasks_, wtask, wpc>>
  /\ UNCHANGED <<stop_, joined, ppc, pret, submitted, ran>>
  /\ UNCHANGED <<serverVars, chanVars, svcVars, regVars, bufVars>>

\* the workers in woken leave condition_.wait: each takes the lock again and
\* evaluates the predicate in its next turn
Notified(woken) == [w \in Workers |-> IF w \in woken THEN "loop" ELSE wpc[w]]

\* condition_.wait may wake with no notification
SpuriousWakeup(w) ==
  /\ wpc[w] = "waiting"
  /\ wpc' = Notified({w})
  /\ UNCHANGED <<tasks_, stop_, wtask, joined, ppc, pret, submitted, ran>>
  /\ UNCHANGED <<serverVars, chanVars, svcVars, regVars, bufVars>>

\* what invoking the packaged_task leaves in the shared state of its future:
\* the value, the exception the function threw, or nothing new when the task
\* was invoked before (future_error, caught by the worker)
Invoke(id) ==
  IF ran[id] # << >> THEN "future_error"
  ELSE IF submitted[id].throws THEN "exception" ELSE "value"

\* WorkerThread: task() outside the lock, inside try/catch, then the next turn
WorkerRun(w) ==
  /\ wpc[w] = "run"
  /\ ran' = [ran EXCEPT ![wtask[w]] = Append(@, [worker |-> w, outcome |-> Invoke(wtask[w])])]
  /\ wtask' = [wtask EXCEPT ![w] = 0]
  /\ wpc' = [wpc EXCEPT ![w] = "loop"]
  /\ UNCHANGED <<tasks_, stop_, joined, ppc, pret, submitted>>
  /\ UNCHANGED <<serverVars, chanVars, svcVars, regVars, bufVars>>

\* the functions the callers submit: the first one returns or throws, the
\* ones submitted after it return
SubmitInputs == IF submitted = << >> THEN BOOLEAN ELSE {FALSE}

\* ThreadPool::Submit, its critical section: runtime_error on a stopped
\* pool, else the task is enqueued
SubmitEnqueue(c) ==
  /\ ppc[c] = "idle"
  /\ Len(submitted) < MaxTasks
  /\ \E throws \in SubmitInputs :
       submitted' = Append(submitted, [throws |-> throws, accepted |-> ~stop_])
  /\ ran' = Append(ran, << >>)
  /\ IF stop_
     THEN /\ pret' = [op |-> "Submit", by |-> c, ret |-> "runtime_error"]
          /\ UNCHANGED <<tasks_, ppc>>
     ELSE /\ tasks_' = Append(tasks_, Len(submitted) + 1)
          /\ ppc' = [ppc EXCEPT ![c] = "submit_notify"]
          /\ UNCHANGED pret
  /\ UNCHANGED <<stop_, wpc, wtask, joined>>
  /\ UNCHANGED <<serverVars, chanVars, svcVars, regVars, bufVars>>

\* ThreadPool::Submit: condition_.notify_one(), and the future is returned
SubmitNotify(c) ==
  /\ ppc[c] = "submit_notify"
  /\ IF Waiting = {} THEN UNCHANGED wpc
     ELSE \E w \in Waiting : wpc' = Notified({w})
  /\ ppc' = [ppc EXCEPT ![c] = "idle"]
  /\ pret' = [op |-> "Submit", by |-> c, ret |-> "future"]
  /\ UNCHANGED <<tasks_, stop_, wtask, joined, submitted, ran>>
  /\ UNCHANGED <<serverVars, chanVars, svcVars, regVars, bufVars>>

\* ThreadPool::Shutdown (and ~ThreadPool, which calls it), its critical
\* section: return when stop_ is set, else set it
ShutdownBegin(c) ==
  /\ ppc[c] = "idle"
  /\ IF stop_
     THEN /\ pret' = [op |-> "Shutdown", by |-> c, ret |-> "void", stopped |-> FALSE]
          /\ UNCHANGED <<stop_, ppc>>
     ELSE /\ stop_' = TRUE
          /\ ppc' = [ppc EXCEPT ![c] = "shutdown_notify"]
          /\ UNCHANGED pret
  /\ UNCHANGED <<tasks_, wpc, wtask, joined, submitted, ran>>
  /\ UNCHANGED <<serverVars, chanVars, svcVars, regVars, bufVars>>

\* ThreadPool::Shutdown: condition_.notify_all()
ShutdownNotify(c) ==
  /\ ppc[c] = "shutdown_notify"
  /\ wpc' = Notified(Waiting)
  /\ ppc' = [ppc EXCEPT ![c] = "shutdown_join"]
  /\ UNCHANGED <<tasks_, stop_, wtask, joined, pret, submitted, ran>>
  /\ UNCHANGED <<serverVars, chanVars, svcVars, regVars, bufVars>>

\* ThreadPool::Shutdown: worker.join() of the next joinable worker, which
\* returns when that worker has returned from WorkerThread
ShutdownJoin(c) ==
  /\ ppc[c] = "shutdown_join"
  /\ joined # Workers
  /\ LET w == CHOOSE v \in Workers \ joined : \A u \in Workers \ joined : v <= u
     IN  /\ wpc[w] = "exited"
         /\ joined' = joined \cup {w}
  /\ UNCHANGED <<tasks_, stop_, wpc, wtask, ppc, pret, submitted, ran>>
  /\ UNCHANGED <<serverVars, chanVars, svcVars, regVars, bufVars>>

\* ThreadPool::Shutdown returns after the loop over workers_
ShutdownReturn(c) ==
  /\ ppc[c] = "shutdown_join"
  /\ joined = Workers
  /\ ppc' = [ppc EXCEPT ![c] = "idle"]
  /\ pret' = [op |-> "Shutdown", by |-> c, ret |-> "void", stopped |-> TRUE]
  /\ UNCHANGED <<tasks_, stop_, wpc, wtask, joined, submitted, ran>>
  /\ UNCHANGED <<serverVars, chanVars, svcVars, regVars, bufVars>>

\* the steps of worker w that need no one else's notification
WorkerStep(w) == WorkerTurn(w) \/ WorkerRun(w)

\* the steps of a Submit or Shutdown call that is under way on thread c
InPoolCall(c) == SubmitNotify(c) \/ ShutdownNotify(c) \/ ShutdownJoin(c) \/ ShutdownReturn(c)

PoolNext ==
  \/ \E w \in Workers : WorkerStep(w)
  \/ \E w \in Workers : SpuriousWakeup(w)
  \/ \E c \in Callers : SubmitEnqueue(c)
  \/ \E c \in Callers : ShutdownBegin(c)
  \/ \E c \in Callers : InPoolCall(c)

\* a process that uses one ThreadPool from its threads; its server, Channel,
\* registry and ByteBuffer are not used
PoolProcess ==
  /\ ServerInit /\ ~sockFile /\ ChannelUnused /\ NothingExecuted /\ RegistryUnused
  /\ BufferUnused /\ PoolInit

PoolSpec == PoolProcess /\ [][PoolNext]_vars

\* threads are scheduled: a worker that can take its turn or run its task
\* does so, every task returns or throws, and a call under way goes on;
\* nothing makes a thread call Submit or Shutdown, and no wakeup comes
\* without a notification
PoolFairSpec ==
  PoolSpec /\ \A w \in Workers : WF_vars(WorkerStep(w))
           /\ \A c \in Callers : WF_vars(InPoolCall(c))

\* ------------------------------------------------------ ByteBuffer claims
PutOps ==
  {"PutByte", "PutShort", "PutInt", "PutLong", "PutFloat", "PutDouble", "PutString",
   "PutMap", "PutArray"}

GetOps ==
  {"GetByte", "GetShort", "GetInt", "GetLong", "GetFloat", "GetDouble", "GetString",
   "GetMap", "GetArray"}

\* a call of operation op was made in this step
Called(op) == ops' = ops + 1 /\ bufOp'.op = op

RECURSIVE EntriesSize(_, _)
EntriesSize(data, order) ==
  IF order = << >> THEN 0
  ELSE 8 + Len(Head(order)) + Len(data[Head(order)]) + EntriesSize(data, Tail(order))

\* the number of bytes the encoding of a Put's argument has
EncodingSize(in) ==
  CASE in.op = "PutByte" -> 1
    [] in.op = "PutShort" -> 2
    [] in.op \in {"PutInt", "PutFloat"} -> 4
    [] in.op \in {"PutLong", "PutDouble"} -> 8
    [] in.op \in {"PutString", "PutArray"} -> 4 + Len(in.data)
    [] in.op = "PutMap" -> 4 + EntriesSize(in.data, in.order)

\* C31: a Put whose encoding does not fit in the bytes that remain from the
\* cursor fails with an overflow error and leaves the contents of the buffer
\* and the cursor as they were before the call
C31_PutAllOrNothing ==
  [][\A op \in PutOps :
       (Called(op) /\ EncodingSize(bufOp'.in) > Capacity - position_) =>
         /\ bufOp'.error = "overflow_error"
         /\ region' = region
         /\ position_' = position_]_vars

\* the length or count that the four bytes at pos declare
Declared(rgn, pos) == SizeOf(SubSeq(rgn, pos + 1, pos + 4))

\* the number of bytes a Get needs from the cursor: its width, or the length
\* field and what the length field declares (a map entry is two strings, at
\* least eight bytes)
Needed(in, rgn, pos) ==
  CASE in.op = "GetByte" -> 1
    [] in.op = "GetShort" -> 2
    [] in.op \in {"GetInt", "GetFloat"} -> 4
    [] in.op \in {"GetLong", "GetDouble"} -> 8
    [] in.op \in {"GetString", "GetArray"} ->
         IF pos + 4 > Capacity THEN 4 ELSE 4 + Declared(rgn, pos)
    [] in.op = "GetMap" ->
         IF pos + 4 > Capacity THEN 4 ELSE 4 + 8 * Min(Declared(rgn, pos), Capacity)

\* a Get that is given a destination and the memory it asks for
Served(in) ==
  /\ in.op = "GetArray" => ~in.null
  /\ in.op = "GetMap" => in.reserved

\* C32: the cursor stays within 0..Capacity and no call touches a byte at an
\* index from Capacity on; a Get for which fewer bytes remain than it needs
\* fails with an underflow error; SetPosition beyond the capacity is rejected
\* and leaves the cursor where it was
C32_WithinBounds ==
  /\ [](position_ >= 0 /\ position_ <= Capacity)
  /\ []((bufOp.op \in PutOps \cup GetOps) => bufOp.high <= Capacity)
  /\ [][\A op \in GetOps :
          (Called(op) /\ Served(bufOp'.in)
             /\ Needed(bufOp'.in, region, position_) > Capacity - position_) =>
            bufOp'.error = "underflow_error"]_vars
  /\ [][(Called("SetPosition") /\ bufOp'.pos > Capacity) =>
          (bufOp'.error = "out_of_range" /\ position_' = position_)]_vars

\* the Get of a recorded value that the caller makes with room for it
MatchingGet(e, in) ==
  /\ in.op = e.op
  /\ in.op = "GetArray" => (~in.null /\ in.max_len >= Len(e.data))

Accepted == {id \in DOMAIN submitted : submitted[id].accepted}

\* every accepted task was run, the queue is empty and every worker has
\* returned from WorkerThread and was joined
Drained ==
  /\ \A w \in Workers : wpc[w] = "exited"
  /\ joined = Workers
  /\ tasks_ = << >>
  /\ \A id \in Accepted : Len(ran[id]) = 1

\* thread c is inside the Shutdown call that stopped the pool
ShuttingDown(c) == ppc[c] \in {"shutdown_notify", "shutdown_join"}

\* C34: the Shutdown (or destructor) that stops the pool returns only after
\* every task accepted before it was run and every worker has returned, and
\* it does return; no queued task is dropped; a Shutdown of a pool already
\* stopped returns and changes nothing
C34_ShutdownDrains ==
  /\ []((pret.op = "Shutdown" /\ pret.stopped) => Drained)
  /\ [][\A c \in Callers : (ShuttingDown(c) /\ ppc'[c] = "idle") => Drained]_vars
  /\ [](\A w \in Workers : wpc[w] = "exited" => (stop_ /\ tasks_ = << >>))
  /\ [][\A c \in Callers :
          (stop_ /\ ppc[c] = "idle" /\ pret' # pret /\ pret'.op = "Shutdown"
             /\ pret'.by = c) =>
            /\ ~pret'.stopped
            /\ ppc'[c] = "idle"
            /\ UNCHANGED <<tasks_, stop_, wpc, wtask, joined, submitted, ran>>]_vars
  /\ \A c \in Callers : ShuttingDown(c) ~> (ppc[c] = "idle" /\ Drained)

\* the owner's Shutdown has returned after two accepted tasks were run and
\* both workers were joined
C34_Witness ==
  /\ pret = [op |-> "Shutdown", by |-> "owner", ret |-> "void", stopped |-> TRUE]
  /\ Cardinality(Accepted) = 2
  /\ Drained

\* where an accepted task is: in the queue, with a worker, or run
Places(id) ==
  Cardinality({i \in DOMAIN tasks_ : tasks_[i] = id})
    + Cardinality({w \in Workers : wtask[w] = id})
    + Len(ran[id])

\* C35: a task that Submit accepted is in the queue, with one worker or run,
\* never twice, and it is run in the end, by one worker, leaving its value or
\* its exception in the future; a worker that ran a throwing task goes on
\* with its loop; Submit on a stopped pool throws and enqueues nothing
C35_ExactlyOnce ==
  /\ [](\A id \in DOMAIN submitted :
          /\ Places(id) = (IF submitted[id].accepted THEN 1 ELSE 0)
          /\ \A i \in DOMAIN ran[id] :
               ran[id][i].outcome = (IF submitted[id].throws THEN "exception" ELSE "value"))
  /\ [][\A w \in Workers :
          (wpc[w] = "run" /\ wpc'[w] # "run") =>
            (wpc'[w] = "loop" /\ Len(ran'[wtask[w]]) = Len(ran[wtask[w]]) + 1)]_vars
  /\ [][(stop_ /\ Len(submitted') > Len(submitted)) =>
          /\ tasks_' = tasks_
          /\ ~submitted'[Len(submitted')].accepted
          /\ pret'.op = "Submit" /\ pret'.ret = "runtime_error"]_vars
  /\ [][(~stop_ /\ Len(submitted') > Len(submitted)) =>
          /\ submitted'[Len(submitted')].accepted
          /\ tasks_' = Append(tasks_, Len(submitted'))]_vars
  /\ \A id \in 1 .. MaxTasks :
       (id \in Accepted) ~> (id \in Accepted /\ Len(ran[id]) = 1)

\* a worker ran a task that threw and then a task that returned
C35_Witness ==
  /\ Len(submitted) >= 2
  /\ \E w \in Workers :
       /\ ran[1] = << [worker |-> w, outcome |-> "exception"] >>
       /\ ran[2] = << [worker |-> w, outcome |-> "value"] >>
=============================================================================
